---- MODULE Spec2Model ----
(***************************************************************************)
(* State-machine model of the modal-executor package of RelevanceAI/harvest *)
(*                                                                         *)
(*   HarvestSandbox   sandbox.py        start / send_prompt_stream /       *)
(*                                      terminate                          *)
(*   SessionState     session_state.py  SQLite conversation log            *)
(*   ClaudeCliWrapper claude_cli.py     child process and its stdout       *)
(*                                                                         *)
(* Texts are sequences of tokens; string concatenation and f-string        *)
(* formatting are sequence concatenation.  Every `await` of the source is  *)
(* a point at which another task of the event loop may run, so a coroutine *)
(* is cut into one action per stretch between two awaits.                  *)
(*                                                                         *)
(* The provisioning API is outside the repository.  It is modelled at its  *)
(* boundary: `exec` returns the finished command's {stdout, stderr,        *)
(* returncode} or raises; `create` returns a handle or raises.             *)
(***************************************************************************)
EXTENDS Integers, Sequences, FiniteSets, TLC

\* ------------------------------------------------------------------ bounds

MaxStarts == 2
MaxCalls == 2
\* send_prompt_stream calls made while start() and terminate() also run
MaxLifecycleCalls == 1
MaxChunks == 2
\* storage faults (a failing INSERT or COMMIT) over a run
MaxFaults == 1
\* setup commands exiting non-zero within one start()
MaxNonZero == 1
\* rows of table conversation in the runs that drive SessionState directly
MaxRows == 12
\* the largest value time.time() takes in those runs
MaxClock == 1
\* stdout lines the CLI process writes in one stream_prompt call
MaxLines == 2
\* processes the CLI process starts itself (tool commands) in one call
MaxHelpers == 2
\* stdout lines handed to _stream_json_chunks in the runs that parse them
MaxParsed == 2
\* HarvestSandbox objects of one repository, sharing its memory volume
MaxSessions == 3
\* _write_json_atomic calls followed
MaxWrites == 2
\* characters of the output of claude --version
MaxOut == 6
\* words of a text given to the Redactor
MaxWords == 2
\* SandboxExecutor.execute calls, and HarvestSandbox.exec calls
MaxExecutes == 2
\* mark_file_modified calls followed in the registry
MaxMarks == 3
\* stream_prompt calls made one after another on one ClaudeCliWrapper
MaxSeqCalls == 2
\* the largest timeout (in clock ticks) a stream_prompt call is given
MaxTimeout == 2
\* clock ticks followed within one stream_prompt call
MaxTime == 3

\* ------------------------------------------------------- program constants

\* LIMIT 10 of build_context_prompt's SELECT
HistoryLimit == 10
\* characters of stderr embedded in the failure message (claude_cli.py:105)
StderrExcerpt == 500
\* the generic rule of the Redactor matches alphanumeric runs this long
TokenThreshold == 40

\* Python's None, for the fields that hold a string when set.  An unset handle
\* (self.sandbox) is 0 and an unset Optional[int] is the empty sequence.
None == "None"

\* --------------------------------------------------------------- variables

VARIABLES
    \* HarvestSandbox fields (sandbox.py:287-298)
    sandbox,            \* self.sandbox: None or the handle of a created sandbox
    session_state,      \* self.session_state: None or "SessionState"
    claude_cli_ready,   \* self._claude_cli_ready
    \* provisioning side
    created,            \* number of sandboxes modal.Sandbox.create has returned
    live,               \* handles created and not yet terminated
    memory_exists,      \* /root/.mcp-memory/memory.jsonl exists on the volume
    \* start() coroutine
    startPc,            \* "idle" | "create" | "issue" | "await"
    stepIdx,            \* index into StartSteps of the setup step start() is in
    cmdIdx,             \* index into the step's commands (both 0 before the first)
    log,                \* events of the current start(), oldest first
    startResult,        \* most recent start(): "none" | "running" | "ok" | "raised"
    starts,             \* number of start() calls made
    terminatedSince,    \* terminate() was called after the most recent start() ended
    tracing,            \* whether log is kept in this run
    \* terminate() coroutine
    termPc,             \* "idle" | "await" ("raised": an exception left terminate())
    termTarget,         \* handle whose terminate.aio() is awaited
    termLog,            \* history: the teardown steps of the latest terminate()
    closedUnder,        \* history: calls that were streaming when terminate() closed the store
    logAtClose,         \* history: the committed log when terminate() last closed the store
    \* send_prompt_stream calls
    pc,                 \* per call: position of the generator
    prompt,             \* per call: the caller's prompt
    sent,               \* per call: the prompt handed to the CLI
    response_parts,     \* per call: the list response_parts
    yielded,            \* per call: chunks the consumer has received
    returncode,         \* per call: proc.returncode once reaped
    statusAtCall,       \* per call: LifecycleStatus when it was called
    completed,          \* calls in the order their response streams completed
    \* ClaudeCliWrapper fields (claude_cli.py:40-41)
    last_returncode,
    last_stderr,        \* ClaudeCliWrapper.last_stderr, <<>> while None
    cliPc,              \* where the one observed stream_prompt call stands
    child,              \* the process of create_subprocess_exec
    helpers,            \* running processes started by that process
    lines,              \* stdout lines read so far
    exitcode,           \* proc.returncode, <<>> while the process runs
    error_msg,          \* message of the RuntimeError stream_prompt raised, else <<>>
    cliArgs,            \* <<prompt, oauth_token>> of the stream_prompt call, else <<>>
    argv,               \* the argument vector of the CLI process, <<>> before it is spawned
    childEnv,           \* what stream_prompt put into the environment of the CLI process
    seedPc,             \* per session: where its _seed_memory_if_needed stands
    existedAtCheck,     \* per session: did memory.jsonl exist when its check ran
    seedWritesBy,       \* per session: seed writes to memory.jsonl it has made
    exLine,             \* the stdout line _stream_json_chunks handled last
    exText,             \* what _extract_text returned for it
    exYielded,          \* the values _stream_json_chunks has yielded
    exPc,               \* "reading", "eof", or "raised" once an exception left it
    exRead,             \* lines handled so far
    \* _write_json_atomic and the shell it starts in the sandbox
    fs,                 \* files of the sandbox: content as lines, NoFile if absent
    wjPc,               \* "idle" | "shell" | "cat" | "exited" | "returned"
    wjPath,             \* path of the latest _write_json_atomic call
    wjContent,          \* content (json.dumps) of the latest call
    wjScript,           \* lines of the script the shell has not read yet
    wjQueue,            \* commands of the line the shell is executing
    wjBody,             \* here-document lines cat has not written yet
    wjRc,               \* exit status of the shell's last command
    writes,             \* number of _write_json_atomic calls made
    before,             \* content of wjPath when the latest call was made
    observed,           \* contents a reader of wjPath saw since the latest call
    \* _get_claude_version_safe
    verPc,              \* "probe" | "returned" | "raised"
    verRc,              \* return code of claude --version
    verOut,             \* its stdout, as characters
    verResult,          \* what _get_claude_version_safe returned, <<>> before
    \* the Redactor
    redPc,              \* "idle" | "given" | "done"
    redWords,           \* the words the text was composed of
    redSeps,            \* the separators between them
    redOut,             \* redact(text)
    redTwice,           \* redact(redact(text))
    \* SandboxExecutor.execute and HarvestSandbox.exec
    xPc,                \* execute: "idle" | a step of it | "finally" | "returned" | "raised"
    xSb,                \* execute: its local sb, 0 while None
    xMade,              \* sandboxes modal.Sandbox.create has returned to execute
    xTermCalls,         \* sandboxes sb.terminate() was called on, in call order
    xPending,           \* execute: the result its return statement built, <<>> before
    xPath,              \* execute: "none" | "normal" | "timeout" | "crash"
    xCleanup,           \* execute: "none" | "ok" | "raised" (what terminate() did)
    xResults,           \* results execute has returned, oldest first
    executes,           \* number of execute calls made
    hPc,                \* exec: "idle" | "await" | "raised"
    hResults,           \* results HarvestSandbox.exec has returned, oldest first
    \* the modified-file registry of SessionState
    marked,             \* history: the paths mark_file_modified was given, in call order
    listed,             \* what the latest get_modified_files returned
    listedAt,           \* Len(marked) at that call, -1 before the first
    \* the git commands of start()
    gitSession,         \* the HarvestSession the sandbox was constructed with
    gitPc,              \* "ready" | "await" | "raised" | "done"
    gitIssued,          \* argument vectors handed to exec so far, oldest first
    \* stream_prompt calls made one after another on one ClaudeCliWrapper
    qPc,                \* where the latest call stands, or how it ended
    qCalls,             \* number of stream_prompt calls made
    qTimeout,           \* the timeout argument of the latest call
    qElapsed,           \* clock ticks since the latest call was made (kept once it ended)
    qWaitFrom,          \* qElapsed when the pending readline() was awaited
    qReadUntil,         \* qElapsed when the latest readline() returned
    qLines,             \* stdout lines the latest call has read
    qProcs,             \* the processes create_subprocess_exec returned, oldest first
    \* SessionState store (session_state.py)
    conn,               \* self._conn: "open" | None
    conversation,       \* committed rows of table conversation, by id
    pending,            \* rows inserted in the open transaction, not committed
    files_modified,     \* committed rows of table files_modified
    pendingFiles,       \* upserts of the open transaction, not committed
    clock,              \* time.time()
    faults,             \* storage faults injected so far
    ctx                 \* what the latest direct build_context_prompt returned

sbVars == <<sandbox, session_state, claude_cli_ready, created, live, memory_exists>>
startVars == <<startPc, stepIdx, cmdIdx, log, startResult, starts, terminatedSince, tracing>>
termVars == <<termPc, termTarget, termLog, closedUnder, logAtClose>>
callVars == <<pc, prompt, sent, response_parts, yielded, returncode, statusAtCall, completed>>
spawnVars == <<cliArgs, argv, childEnv>>
procVars == <<last_stderr, cliPc, child, helpers, lines, exitcode, error_msg, spawnVars>>
extractVars == <<exLine, exText, exYielded, exPc, exRead>>
seedVars == <<seedPc, existedAtCheck, seedWritesBy>>
writeVars == <<fs, wjPc, wjPath, wjContent, wjScript, wjQueue, wjBody, wjRc, writes,
               before, observed>>
versionVars == <<verPc, verRc, verOut, verResult>>
redactVars == <<redPc, redWords, redSeps, redOut, redTwice>>
execVars == <<xPc, xSb, xMade, xTermCalls, xPending, xPath, xCleanup, xResults, executes,
              hPc, hResults>>
filesVars == <<marked, listed, listedAt>>
gitVars == <<gitSession, gitPc, gitIssued>>
seqVars == <<qPc, qCalls, qTimeout, qElapsed, qWaitFrom, qReadUntil, qLines, qProcs>>
moreVars == <<writeVars, versionVars, redactVars, execVars, filesVars, gitVars, seqVars>>
restVars == <<extractVars, seedVars, moreVars>>
cliVars == <<last_returncode, procVars, restVars>>
storeVars == <<conn, conversation, pending, files_modified, pendingFiles, clock, faults, ctx>>

vars == <<sbVars, startVars, termVars, callVars, cliVars, storeVars>>

\* ----------------------------------------------------------------- inputs

\* JSON values are tuples of strings: <<"absent">> for a missing key,
\* <<"null">>, <<"arr">>, <<"str", s>>, <<"num", digits>>, and for an object
\* <<"obj", t, v>> where <<t, v>> is the value under its key "text"
\* (<<"obj", "absent", "">> when it has none).

Absent == <<"absent">>
JNull == <<"null">>
JStr(x) == <<"str", x>>
JNum(x) == <<"num", x>>
JObj(text) == <<"obj", text[1], IF Len(text) > 1 THEN text[2] ELSE "">>
NoText == <<"none">>
Raises == <<"raises">>

\* A stdout line: blank, not JSON, a JSON value that is no object, or an
\* object with what it holds under "type", "delta", "text" and "content".
Line(kind, type, delta, text, content) ==
    [kind |-> kind, type |-> type, delta |-> delta, text |-> text, content |-> content]
NoLine == Line("none", Absent, Absent, Absent, Absent)

Calls == 1..MaxCalls

\* HarvestSession (sandbox.py:215-247), the fields the git commands read
Session(github_token, repo_owner, repo_name, branch) ==
    [github_token |-> github_token, repo_owner |-> repo_owner, repo_name |-> repo_name,
     branch |-> branch, user_email |-> "dev@example.com", user_name |-> "Developer"]

\* The three files _initialize_claude_cli writes (sandbox.py:547, 554, 585)
\* and the sibling each write goes through (sandbox.py:523).
ConfigPaths == {"/root/.claude.json", "/root/.claude/.claude.json",
                "/root/.claude/settings.json"}
Tmp(path) == path \o ".tmp"
Files == ConfigPaths \cup {Tmp(p) : p \in ConfigPaths}
\* a file that does not exist; an existing file is the sequence of its lines
NoFile == <<"ENOENT">>
\* a complete document some earlier writer left at a path
OldDoc == <<"{", "old", "}">>
Sessions == 1..MaxSessions
Prompts == {<<"p1">>, <<"p2">>}
\* The texts the CLI's stdout events carry, in the order it emits them.
ChunkStream == <<<<"x">>, <<"y">>, <<"z">>, <<"w">>>>
ReturnCodes == {0, 1}
Responses == {<<"x">>}
Paths == {"a.py"}

\* ------------------------------------------------------------ SessionState

\* The rows the session's connection reads: committed rows, then its own
\* uncommitted ones (a connection sees its open transaction).
View == conversation \o pending

\* A row of table conversation.  id is the AUTOINCREMENT key; call is a
\* history label (which send_prompt_stream call wrote the row, 0 for a direct
\* call) that the code does not store.
Row(id, role, content, ts, call) ==
    [id |-> id, role |-> role, content |-> content, timestamp |-> ts, call |-> call]

\* INSERT INTO conversation: the next id follows the largest one.
InsertRow(rows, role, content, ts, call) ==
    Append(rows, Row(Len(rows) + 1, role, content, ts, call))

\* The two INSERTs of add_exchange, user then assistant, one ts.
AddExchangePrepend(rows, user, assistant, ts, call) ==
    <<Row(1, "user", user, ts, call), Row(2, "assistant", assistant, ts, call)>>
        \o [i \in 1..Len(rows) |-> [rows[i] EXCEPT !.id = @ + 2]]

AddExchangeRows(rows, user, assistant, ts, call) ==
    InsertRow(InsertRow(rows, "user", user, ts, call), "assistant", assistant, ts, call)

\* (as SelectRecent, without the LIMIT)
SelectAllDesc(rows, n) == [i \in 1..Len(rows) |-> rows[Len(rows) + 1 - i]]

\* SELECT role, content FROM conversation ORDER BY id DESC LIMIT n
SelectRecent(rows, n) ==
    LET ids == {rows[j].id : j \in 1..Len(rows)}
        k == IF Cardinality(ids) < n THEN Cardinality(ids) ELSE n
        \* the i-th largest id
        Nth(i) == CHOOSE x \in ids : Cardinality({y \in ids : y > x}) = i - 1
    IN [i \in 1..k |-> CHOOSE r \in {rows[j] : j \in 1..Len(rows)} : r.id = Nth(i)]

Reversed(s) == [i \in 1..Len(s) |-> s[Len(s) + 1 - i]]

RECURSIVE HistoryLines(_)
HistoryLines(history) ==
    IF history = <<>> THEN <<>>
    ELSE <<Head(history).role, ": ">> \o Head(history).content \o <<"\n">>
             \o HistoryLines(Tail(history))

BuildContextPrompt(rows, new_prompt) ==
    LET history == Reversed(SelectRecent(rows, HistoryLimit))
    IN IF history = <<>> THEN new_prompt
       ELSE <<"Previous conversation:", "\n">> \o HistoryLines(history)
                \o <<"\n", "User: ">> \o new_prompt \o <<"\n">>

\* INSERT OR REPLACE INTO files_modified: path is the primary key.
Upsert(table, path, ts) ==
    {r \in table : r.path # path} \cup {[path |-> path, timestamp |-> ts]}

RECURSIVE ApplyUpserts(_, _)
ApplyUpserts(table, ups) ==
    IF ups = <<>> THEN table
    ELSE ApplyUpserts(Upsert(table, Head(ups).path, Head(ups).timestamp), Tail(ups))

\* The rows of table files_modified as the session's connection reads them.
FilesView == ApplyUpserts(files_modified, pendingFiles)

\* self._conn.commit(): the open transaction becomes durable.
Commit(rows, ups) ==
    /\ conversation' = rows
    /\ pending' = <<>>
    /\ files_modified' = ApplyUpserts(files_modified, ups)
    /\ pendingFiles' = <<>>

\* A statement or the commit failed: what the transaction holds stays
\* uncommitted in the connection (nothing rolls it back).
LeaveOpen(rows) ==
    /\ pending' = SubSeq(rows, Len(conversation) + 1, Len(rows))
    /\ faults' = faults + 1
    /\ UNCHANGED <<conversation, files_modified, pendingFiles>>

\* add_exchange(user, assistant) on an open connection (session_state.py:118-127).
\* how = "ok", or the statement at which the storage layer raises:
\* "insert1", "insert2" or "commit".
AddExchange(user, assistant, call, how) ==
    CASE how = "ok" ->
            /\ Commit(AddExchangeRows(View, user, assistant, clock, call), pendingFiles)
            /\ faults' = faults
      [] how = "insert1" -> LeaveOpen(View)
      [] how = "insert2" -> LeaveOpen(InsertRow(View, "user", user, clock, call))
      [] how = "commit" -> LeaveOpen(AddExchangeRows(View, user, assistant, clock, call))

\* The outcomes the storage layer can still produce.
Hows == IF faults < MaxFaults THEN {"ok", "insert1", "insert2", "commit"} ELSE {"ok"}

\* close(): the connection is closed, which rolls its open transaction back.
CloseConn ==
    /\ conn' = None
    /\ pending' = <<>>
    /\ pendingFiles' = <<>>

\* "".join(response_parts)
RECURSIVE Join(_)
Join(parts) == IF parts = <<>> THEN <<>> ELSE Head(parts) \o Join(Tail(parts))

\* ---------------------------------------------------- HarvestSandbox.start

\* start() awaits its four setup steps in this order (sandbox.py:351-354).
StartStepsCloneFirst ==
    <<"_clone_repo", "_configure_git", "_seed_memory_if_needed", "_initialize_claude_cli">>

StartSteps ==
    <<"_configure_git", "_clone_repo", "_seed_memory_if_needed", "_initialize_claude_cli">>

\* The commands each step hands to sandbox.exec, in order.
StepCmds(step) ==
    CASE step = "_configure_git" ->
            <<"credential.helper", "git-credentials", "user.email", "user.name",
              "push.autoSetupRemote", "init.defaultBranch">>
      [] step = "_clone_repo" -> <<"clone">>
      [] step = "_seed_memory_if_needed" -> <<"seed-check", "seed">>
      [] step = "_initialize_claude_cli" ->
            <<"version", "claude.json", "prefs", "settings">>

\* if proc.returncode != 0: raise RuntimeError (clone: 378-380, version: 487-489).
\* No other command's return code is read.
NeverRaises(cmd, rc) == FALSE

ReturnCodeRaises(cmd, rc) == cmd \in {"clone", "version"} /\ rc # 0

\* (as NeedsSeed, seeding whatever the check printed)
SeedsAlways(stdout) == TRUE

\* if stdout == "empty" (sandbox.py:433)
NeedsSeed(stdout) == stdout = "empty"

\* stdout of: test -f memory.jsonl && echo 'exists' || echo 'empty'
SeedCheckStdout == IF memory_exists THEN "exists" ELSE "empty"

Event(e, what, rc) == [e |-> e, what |-> what, rc |-> rc]

CurStep == StartSteps[stepIdx]
CurCmd == StepCmds(CurStep)[cmdIdx]

\* (as NextPos, but _seed_memory_if_needed is never entered)
NextPosSkipSeed(s, c) ==
    IF c < Len(StepCmds(StartSteps[s])) THEN <<s, c + 1>>
    ELSE IF s + 1 <= Len(StartSteps) /\ StartSteps[s + 1] # "_seed_memory_if_needed"
    THEN <<s + 1, 1>>
    ELSE IF s + 2 <= Len(StartSteps) THEN <<s + 2, 1>>
    ELSE <<0, 0>>

\* Where start() goes after command (s, c) returned without raising:
\* <<step, command>>, or <<0, 0>> when the last step has returned.
NextPos(s, c) ==
    IF StartSteps[s] = "_seed_memory_if_needed" /\ c = 1 /\ ~NeedsSeed(SeedCheckStdout)
    THEN IF s < Len(StartSteps) THEN <<s + 1, 1>> ELSE <<0, 0>>
    ELSE IF c < Len(StepCmds(StartSteps[s])) THEN <<s, c + 1>>
    ELSE IF s < Len(StartSteps) THEN <<s + 1, 1>>
    ELSE <<0, 0>>

NonZeroExits == Cardinality({i \in 1..Len(log) : log[i].e = "done" /\ log[i].rc # 0})

\* log is a history variable: the code keeps no such list.  It is kept only
\* in the runs that read it.
Logged(events) == IF tracing THEN log \o events ELSE log

StartRaised(events) ==
    /\ log' = Logged(events)
    /\ tracing' = tracing
    /\ terminatedSince' = FALSE
    /\ startPc' = "idle"
    /\ startResult' = "raised"
    /\ UNCHANGED <<stepIdx, cmdIdx>>

\* Runs start() from position (s, c) to its next await: _get_sandbox() raises
\* when self.sandbox is None, otherwise the command is issued.
IssueFrom(events, s, c, box) ==
    LET cmd == StepCmds(StartSteps[s])[c] IN
    IF box = 0
    THEN StartRaised(events \o <<Event("raise", cmd, 0)>>)
    ELSE /\ log' = Logged(events \o <<Event("issue", cmd, 0)>>)
         /\ tracing' = tracing
         /\ terminatedSince' = terminatedSince
         /\ startPc' = "exec"
         /\ stepIdx' = s
         /\ cmdIdx' = c
         /\ startResult' = startResult

\* start() is called: env_vars are built and Sandbox.create is awaited.
StartCall ==
    /\ startPc = "idle"
    /\ starts < MaxStarts
    /\ startPc' = "create"
    /\ starts' = starts + 1
    /\ log' = <<>>
    /\ startResult' = "running"
    /\ terminatedSince' = FALSE
    /\ stepIdx' = 0
    /\ cmdIdx' = 0
    /\ UNCHANGED <<tracing, sbVars, termVars, callVars, cliVars, storeVars>>

\* Sandbox.create returned: the handle and a fresh SessionState are stored
\* (the SessionState it replaces, if any, is closed when collected), and the
\* first command of _configure_git is issued.
CreateReturns ==
    /\ startPc = "create"
    /\ created' = created + 1
    /\ sandbox' = created + 1
    /\ live' = live \cup {created + 1}
    /\ session_state' = "SessionState"
    /\ conn' = "open"
    /\ pending' = <<>>
    /\ pendingFiles' = <<>>
    /\ IssueFrom(<<Event("begin", StartSteps[1], 0)>>, 1, 1, created + 1)
    /\ UNCHANGED <<claude_cli_ready, memory_exists, starts, termVars,
                   callVars, cliVars, conversation, files_modified, clock, faults, ctx>>

\* Sandbox.create raised: nothing was assigned.
CreateRaises ==
    /\ startPc = "create"
    /\ StartRaised(<<Event("raise", "create", 0)>>)
    /\ UNCHANGED <<starts, sbVars, termVars, callVars, cliVars, storeVars>>

\* The awaited exec returned with return code rc; start() runs on to its next
\* await, to a raise, or to its return.
ExecReturns(rc) ==
    /\ startPc = "exec"
    /\ IF rc = 0 THEN TRUE ELSE NonZeroExits < MaxNonZero
    /\ LET cmd == CurCmd
           done == <<Event("done", cmd, rc)>>
           np == NextPos(stepIdx, cmdIdx)
           ends == IF np[1] # stepIdx THEN <<Event("end", CurStep, 0)>> ELSE <<>>
           begins == IF np[1] \notin {0, stepIdx}
                     THEN <<Event("begin", StartSteps[np[1]], 0)>> ELSE <<>>
       IN /\ IF cmd = "seed"
             THEN memory_exists' \in (IF rc = 0 THEN {TRUE} ELSE {memory_exists, TRUE})
             ELSE memory_exists' = memory_exists
          /\ IF ReturnCodeRaises(cmd, rc)
             THEN /\ StartRaised(done \o <<Event("raise", cmd, rc)>>)
                  /\ claude_cli_ready' = claude_cli_ready
             ELSE IF np = <<0, 0>>
             THEN /\ log' = Logged(done \o ends)
                  /\ tracing' = tracing
                  /\ terminatedSince' = FALSE
                  /\ startPc' = "idle"
                  /\ startResult' = "ok"
                  /\ claude_cli_ready' = TRUE
                  /\ UNCHANGED <<stepIdx, cmdIdx>>
             ELSE /\ IssueFrom(done \o ends \o begins, np[1], np[2], sandbox)
                  /\ claude_cli_ready' = claude_cli_ready
    /\ UNCHANGED <<sandbox, session_state, created, live, starts, termVars, callVars,
                   cliVars, storeVars>>

\* The awaited exec raised (the provisioning API failed).
ExecRaises ==
    /\ startPc = "exec"
    /\ StartRaised(<<Event("raise", CurCmd, 0)>>)
    /\ UNCHANGED <<starts, sbVars, termVars, callVars, cliVars, storeVars>>

StartNext ==
    \/ StartCall
    \/ CreateReturns
    \/ CreateRaises
    \/ \E rc \in ReturnCodes : ExecReturns(rc)
    \/ ExecRaises

\* ------------------------------------------------ HarvestSandbox.terminate

\* where a send_prompt_stream call stands while stream_prompt runs for it:
\* reading stdout, awaiting proc.wait(), awaiting proc.stderr.read()
\* (sandbox.py:645-651, claude_cli.py:89-98)
Streaming == {"stream", "wait", "stderr"}

Outcome(ok) == IF ok THEN "ok" ELSE "raised"
Attempt(step, outcome) == [step |-> step, outcome |-> outcome]

\* (as Attempts, with one try block around all the steps)
AttemptsOneTry(hasState, closeOk, commitOk) ==
    IF hasState /\ ~closeOk THEN <<Attempt("close", "raised")>>
    ELSE IF ~commitOk
    THEN (IF hasState THEN <<Attempt("close", "ok")>> ELSE <<>>)
            \o <<Attempt("commit", "raised")>>
    ELSE (IF hasState THEN <<Attempt("close", "ok")>> ELSE <<>>)
            \o <<Attempt("commit", "ok"), Attempt("terminate", "awaited")>>

\* The teardown steps terminate() attempts up to its await, each in a try
\* block of its own whose except clause passes (sandbox.py:712-727):
\* session_state.close() when there is a session state, then
\* _memory_volume.commit(), then sandbox.terminate.aio().
Attempts(hasState, closeOk, commitOk) ==
    (IF hasState THEN <<Attempt("close", Outcome(closeOk))>> ELSE <<>>)
       \o <<Attempt("commit", Outcome(commitOk)), Attempt("terminate", "awaited")>>

\* terminate() up to its await (sandbox.py:711-727): nothing when
\* self.sandbox is None; otherwise the session state is closed and dropped
\* (it stays when close() raises), the memory volume is committed, and the
\* handle's terminate is awaited.
TerminateCall(closeOk, commitOk) ==
    /\ termPc = "idle"
    /\ terminatedSince' = TRUE
    /\ IF sandbox = 0
       THEN /\ termLog' = (IF tracing THEN <<Attempt("nothing", "returned")>> ELSE termLog)
            /\ UNCHANGED <<termPc, termTarget, closedUnder, logAtClose, session_state,
                           storeVars>>
       ELSE LET did == Attempts(session_state # None, closeOk, commitOk)
                closed == session_state # None /\ did[1] = Attempt("close", "ok")
            IN /\ termLog' = (IF tracing THEN did ELSE termLog)
               /\ IF did[Len(did)].step = "terminate"
                  THEN termPc' = "await" /\ termTarget' = sandbox
                  ELSE termPc' = "raised" /\ termTarget' = termTarget
               /\ session_state' = IF closed THEN None ELSE session_state
               /\ closedUnder' = IF closed
                                 THEN closedUnder \cup {c \in Calls : pc[c] \in Streaming}
                                 ELSE closedUnder
               /\ logAtClose' = IF closed THEN conversation ELSE logAtClose
               /\ IF closed
                  THEN CloseConn
                  ELSE UNCHANGED <<conn, pending, pendingFiles>>
               /\ UNCHANGED <<conversation, files_modified, clock, faults, ctx>>
    /\ UNCHANGED <<sandbox, claude_cli_ready, created, live, memory_exists, startPc,
                   stepIdx, cmdIdx, log, startResult, starts, tracing, callVars, cliVars>>

\* terminate() after its await (sandbox.py:728-732); released says whether
\* terminate.aio() ended the sandbox or raised, which is swallowed.
TerminateResumes(released) ==
    /\ termPc = "await"
    /\ live' = IF released THEN live \ {termTarget} ELSE live
    /\ sandbox' = 0
    /\ claude_cli_ready' = FALSE
    /\ termPc' = "idle"
    /\ termTarget' = 0
    /\ termLog' = (IF tracing
                   THEN [termLog EXCEPT ![Len(termLog)].outcome = Outcome(released)]
                           \o <<Attempt("return", "returned")>>
                   ELSE termLog)
    /\ UNCHANGED <<session_state, created, memory_exists, startVars, callVars,
                   cliVars, storeVars, closedUnder, logAtClose>>

\* is_running (sandbox.py:734-737)
IsRunning == sandbox # 0

\* exec(): RuntimeError("Sandbox not started") when self.sandbox is unset,
\* otherwise the command is run in the sandbox (sandbox.py:671-677)
ExecRefuses == sandbox = 0

TerminateNext ==
    \/ \E closeOk, commitOk \in BOOLEAN : TerminateCall(closeOk, commitOk)
    \/ \E released \in BOOLEAN : TerminateResumes(released)

\* ------------------------------------------ HarvestSandbox.send_prompt_stream

\* response_parts.append(chunk) (sandbox.py:650)
CollectChunkFront(parts, chunk) == <<chunk>> \o parts

CollectChunk(parts, chunk) == Append(parts, chunk)

\* The guards of send_prompt_stream (sandbox.py:634-638): RuntimeError unless
\* the CLI is ready and the session state exists.
Accepted == claude_cli_ready /\ session_state # None

\* Where the caller has brought the sandbox: "terminated" once terminate() was
\* called, otherwise how the most recent start() stands; a start() that
\* raised before its first setup command (Sandbox.create failed) is told
\* apart from one that raised in a setup step.
LifecycleStatus ==
    IF terminatedSince THEN "terminated"
    ELSE IF startResult = "raised" /\ stepIdx = 0 THEN "create_raised"
    ELSE startResult

Ended == {"rejected", "done", "timeout", "exit", "crash", "abandoned",
          "store_error", "no_session"}

\* The consumer's first __anext__: the guards, build_context_prompt, and the
\* spawn of the CLI with the context prompt (sandbox.py:634-649).
SendPrompt(c, p) ==
    /\ pc[c] = "new"
    /\ IF c = 1 THEN TRUE ELSE pc[c - 1] # "new"
    /\ prompt' = [prompt EXCEPT ![c] = p]
    /\ statusAtCall' = [statusAtCall EXCEPT ![c] = LifecycleStatus]
    /\ IF Accepted
       THEN /\ pc' = [pc EXCEPT ![c] = "stream"]
            /\ sent' = [sent EXCEPT ![c] = BuildContextPrompt(View, p)]
       ELSE /\ pc' = [pc EXCEPT ![c] = "rejected"]
            /\ sent' = sent
    /\ UNCHANGED <<response_parts, yielded, returncode, completed, sbVars, startVars,
                   termVars, cliVars, storeVars>>

\* stream_prompt yields a chunk: it is collected and passed on (650-651).
YieldChunk(c) ==
    /\ pc[c] = "stream"
    /\ Len(yielded[c]) < MaxChunks
    /\ LET chunk == ChunkStream[Len(yielded[c]) + 1]
       IN /\ response_parts' = [response_parts EXCEPT ![c] = CollectChunk(@, chunk)]
          /\ yielded' = [yielded EXCEPT ![c] = Append(@, chunk)]
    /\ UNCHANGED <<pc, prompt, sent, returncode, statusAtCall, completed, sbVars,
                   startVars, termVars, cliVars, storeVars>>

\* stdout reached EOF: proc.wait() is awaited (claude_cli.py:93).
StdoutEof(c) ==
    /\ pc[c] = "stream"
    /\ pc' = [pc EXCEPT ![c] = "wait"]
    /\ UNCHANGED <<prompt, sent, response_parts, yielded, returncode, statusAtCall,
                   completed, sbVars, startVars, termVars, cliVars, storeVars>>

\* (as StreamFails, but the exchange is saved on the way out)
StreamFailsSaving(c, why) ==
    /\ pc[c] \in {"stream", "wait", "stderr"}
    /\ why = "timeout" => pc[c] # "stderr"
    /\ pc' = [pc EXCEPT ![c] = why]
    /\ IF session_state = None
       THEN UNCHANGED storeVars
       ELSE /\ AddExchange(prompt[c], Join(response_parts[c]), c, "ok")
            /\ UNCHANGED <<conn, clock, ctx>>
    /\ UNCHANGED <<prompt, sent, response_parts, yielded, returncode, statusAtCall,
                   completed, sbVars, startVars, termVars, cliVars>>

\* The call ends without its stream completing: a line-read or exit-wait
\* timeout (claude_cli.py:111-116), an unexpected exception (117-119), or the
\* consumer closing or cancelling the generator.
StreamFails(c, why) ==
    /\ pc[c] \in {"stream", "wait", "stderr"}
    /\ why = "timeout" => pc[c] # "stderr"
    /\ pc' = [pc EXCEPT ![c] = why]
    /\ UNCHANGED <<prompt, sent, response_parts, yielded, returncode, statusAtCall,
                   completed, sbVars, startVars, termVars, cliVars, storeVars>>

\* proc.wait() returned: self.last_returncode = proc.returncode, then
\* proc.stderr.read() is awaited (claude_cli.py:94-98).
Reaped(c, rc) ==
    /\ pc[c] = "wait"
    /\ pc' = [pc EXCEPT ![c] = "stderr"]
    /\ returncode' = [returncode EXCEPT ![c] = <<rc>>]
    /\ last_returncode' = <<rc>>
    /\ UNCHANGED <<procVars, restVars>>
    /\ UNCHANGED <<prompt, sent, response_parts, yielded, statusAtCall, completed,
                   sbVars, startVars, termVars, storeVars>>

\* stderr was read (claude_cli.py:99-109).  A non-zero self.last_returncode
\* raises; otherwise stream_prompt returns, the loop of send_prompt_stream
\* ends and add_exchange(prompt, "".join(response_parts)) runs (654-655).
StreamEnds(c, how) ==
    /\ pc[c] = "stderr"
    /\ IF last_returncode # <<0>>
       THEN /\ how = "ok"
            /\ pc' = [pc EXCEPT ![c] = "exit"]
            /\ UNCHANGED <<completed, storeVars>>
       ELSE /\ completed' = Append(completed, c)
            /\ IF session_state = None
               THEN /\ how = "ok"
                    /\ pc' = [pc EXCEPT ![c] = "no_session"]
                    /\ UNCHANGED storeVars
               ELSE /\ AddExchange(prompt[c], Join(response_parts[c]), c, how)
                    /\ pc' = [pc EXCEPT ![c] = IF how = "ok" THEN "done" ELSE "store_error"]
                    /\ UNCHANGED <<conn, clock, ctx>>
    /\ UNCHANGED <<prompt, sent, response_parts, yielded, returncode, statusAtCall,
                   sbVars, startVars, termVars, cliVars>>

\* The steps of the send_prompt_stream calls cs.
PromptNext(cs) ==
    \/ \E c \in cs, p \in Prompts : SendPrompt(c, p)
    \/ \E c \in cs : YieldChunk(c)
    \/ \E c \in cs : StdoutEof(c)
    \/ \E c \in cs, why \in {"timeout", "crash", "abandoned"} : StreamFails(c, why)
    \/ \E c \in cs, rc \in ReturnCodes : Reaped(c, rc)
    \/ \E c \in cs, how \in Hows : StreamEnds(c, how)

\* ------------------------------------------------------------ specification

\* no stream_prompt call has been made on the wrapper
InitSeq ==
    /\ qPc = "idle"
    /\ qCalls = 0
    /\ qTimeout = 0
    /\ qElapsed = 0
    /\ qWaitFrom = 0
    /\ qReadUntil = 0
    /\ qLines = 0
    /\ qProcs = <<>>

\* no _write_json_atomic call has been made
InitWrite ==
    /\ wjPc = "idle"
    /\ wjPath = ""
    /\ wjContent = <<>>
    /\ wjScript = <<>>
    /\ wjQueue = <<>>
    /\ wjBody = <<>>
    /\ wjRc = 0
    /\ writes = 0
    /\ before = <<>>
    /\ observed = {}

InitProc ==
    /\ last_stderr = <<>>
    /\ cliPc = "idle"
    /\ child = "none"
    /\ helpers = 0
    /\ lines = 0
    /\ exitcode = <<>>
    /\ error_msg = <<>>
    /\ cliArgs = <<>>
    /\ argv = <<>>
    /\ childEnv = <<>>
    /\ seedPc = [s \in Sessions |-> "idle"]
    /\ existedAtCheck = [s \in Sessions |-> "unknown"]
    /\ seedWritesBy = [s \in Sessions |-> 0]
    /\ exLine = NoLine
    /\ exText = NoText
    /\ exYielded = <<>>
    /\ exPc = "reading"
    /\ exRead = 0
    /\ InitWrite
    /\ InitSeq

InitSandbox ==
    /\ InitProc
    /\ sandbox = 0
    /\ session_state = None
    /\ claude_cli_ready = FALSE
    /\ created = 0
    /\ live = {}
    /\ memory_exists \in BOOLEAN
    /\ startPc = "idle"
    /\ stepIdx = 0
    /\ cmdIdx = 0
    /\ log = <<>>
    /\ startResult = "none"
    /\ starts = 0
    /\ terminatedSince = FALSE
    /\ termPc = "idle"
    /\ termTarget = 0
    /\ termLog = <<>>
    /\ closedUnder = {}
    /\ logAtClose = <<>>
    /\ pc = [c \in Calls |-> "new"]
    /\ prompt = [c \in Calls |-> <<>>]
    /\ sent = [c \in Calls |-> <<>>]
    /\ response_parts = [c \in Calls |-> <<>>]
    /\ yielded = [c \in Calls |-> <<>>]
    /\ returncode = [c \in Calls |-> <<>>]
    /\ statusAtCall = [c \in Calls |-> "none"]
    /\ completed = <<>>
    /\ last_returncode = <<>>
    /\ conn = None
    /\ conversation = <<>>
    /\ pending = <<>>
    /\ files_modified = {}
    /\ pendingFiles = <<>>
    /\ clock = 0
    /\ faults = 0
    /\ ctx = <<>>

\* no claude --version probe is followed
InitVersion ==
    /\ verPc = "idle"
    /\ verRc = 0
    /\ verOut = <<>>
    /\ verResult = <<>>

\* no git command has been issued
InitGit ==
    /\ gitSession = Session("tok1", "owner", "repo", "main")
    /\ gitPc = "ready"
    /\ gitIssued = <<>>

\* no file has been marked or listed
InitFiles ==
    /\ marked = <<>>
    /\ listed = <<>>
    /\ listedAt = -1

\* no execute or exec call has been made
InitExec ==
    /\ xPc = "idle"
    /\ xSb = 0
    /\ xMade = 0
    /\ xTermCalls = <<>>
    /\ xPending = <<>>
    /\ xPath = "none"
    /\ xCleanup = "none"
    /\ xResults = <<>>
    /\ executes = 0
    /\ hPc = "idle"
    /\ hResults = <<>>

\* no text is given to the Redactor
InitRedact ==
    /\ redPc = "idle"
    /\ redWords = <<>>
    /\ redSeps = <<>>
    /\ redOut = <<>>
    /\ redTwice = <<>>

InitAll ==
    /\ InitSandbox
    /\ InitVersion
    /\ InitRedact
    /\ InitExec
    /\ InitFiles
    /\ InitGit
    /\ fs = [f \in Files |-> NoFile]

\* A HarvestSandbox after construction, driven by start(), terminate() and
\* send_prompt_stream calls in any interleaving.
Init == InitAll /\ tracing = FALSE

Next == StartNext \/ TerminateNext \/ PromptNext(1..MaxLifecycleCalls)

Spec == Init /\ [][Next]_vars

\* start() and terminate() alone, with the log of start()'s events kept.
InitStart == InitAll /\ tracing = TRUE

NextStart == StartNext \/ TerminateNext

SpecStart == InitStart /\ [][NextStart]_vars

\* A Ready sandbox (the state a first successful start() leaves, which Spec
\* reaches), driven by overlapping send_prompt_stream calls and terminate().
InitReady ==
    /\ InitProc
    /\ InitVersion
    /\ InitRedact
    /\ InitExec
    /\ InitFiles
    /\ InitGit
    /\ fs = [f \in Files |-> NoFile]
    /\ sandbox = 1
    /\ session_state = "SessionState"
    /\ claude_cli_ready = TRUE
    /\ created = 1
    /\ live = {1}
    /\ memory_exists = TRUE
    /\ startPc = "idle"
    /\ stepIdx = Len(StartSteps)
    /\ cmdIdx = Len(StepCmds(StartSteps[Len(StartSteps)]))
    /\ log = <<>>
    /\ startResult = "ok"
    /\ starts = 1
    /\ terminatedSince = FALSE
    /\ tracing = FALSE
    /\ termPc = "idle"
    /\ termTarget = 0
    /\ termLog = <<>>
    /\ closedUnder = {}
    /\ logAtClose = <<>>
    /\ pc = [c \in Calls |-> "new"]
    /\ prompt = [c \in Calls |-> <<>>]
    /\ sent = [c \in Calls |-> <<>>]
    /\ response_parts = [c \in Calls |-> <<>>]
    /\ yielded = [c \in Calls |-> <<>>]
    /\ returncode = [c \in Calls |-> <<>>]
    /\ statusAtCall = [c \in Calls |-> "none"]
    /\ completed = <<>>
    /\ last_returncode = <<>>
    /\ conn = "open"
    /\ conversation = <<>>
    /\ pending = <<>>
    /\ files_modified = {}
    /\ pendingFiles = <<>>
    /\ clock = 0
    /\ faults = 0
    /\ ctx = <<>>

NextPrompt == PromptNext(Calls) \/ TerminateNext

SpecPrompt == InitReady /\ [][NextPrompt]_vars

\* --------------------------------------------- SessionState, driven directly

\* mark_file_modified(path) on an open connection (session_state.py:138-142);
\* how = "ok", or the statement at which the storage layer raises.
MarkFileModified(path, how) ==
    LET ups == Append(pendingFiles, [path |-> path, timestamp |-> clock])
    IN CASE how = "ok" -> Commit(View, ups) /\ faults' = faults
         [] how \in {"insert1", "insert2"} ->
               /\ faults' = faults + 1
               /\ UNCHANGED <<conversation, pending, files_modified, pendingFiles>>
         [] how = "commit" ->
               /\ pendingFiles' = ups
               /\ faults' = faults + 1
               /\ UNCHANGED <<conversation, pending, files_modified>>

StoreAddExchange(user, assistant, how) ==
    /\ conn = "open"
    /\ Len(View) + 2 <= MaxRows
    /\ AddExchange(user, assistant, 0, how)
    /\ ctx' = <<>>
    /\ UNCHANGED <<conn, clock, sbVars, startVars, termVars, callVars, cliVars>>

StoreMarkFileModified(path, how) ==
    /\ conn = "open"
    /\ MarkFileModified(path, how)
    /\ ctx' = <<>>
    /\ UNCHANGED <<conn, clock, sbVars, startVars, termVars, callVars, cliVars>>

\* build_context_prompt(p) on an open connection; ctx keeps the argument, the
\* value returned and the store as the call left it.
StoreBuildContextPrompt(p) ==
    /\ conn = "open"
    /\ ctx' = [prompt |-> p, result |-> BuildContextPrompt(View, p),
               store |-> <<conversation, pending>>]
    /\ UNCHANGED <<conn, conversation, pending, files_modified, pendingFiles, clock,
                   faults, sbVars, startVars, termVars, callVars, cliVars>>

\* close() (session_state.py:158-162)
StoreClose ==
    /\ conn = "open"
    /\ CloseConn
    /\ ctx' = <<>>
    /\ UNCHANGED <<conversation, files_modified, clock, faults, sbVars, startVars,
                   termVars, callVars, cliVars>>

\* SessionState(session_id) again for the same session (session_state.py:39-45)
StoreOpen ==
    /\ conn = None
    /\ conn' = "open"
    /\ UNCHANGED <<conversation, pending, files_modified, pendingFiles, clock, faults,
                   ctx, sbVars, startVars, termVars, callVars, cliVars>>

\* time passes
Tick ==
    /\ clock < MaxClock
    /\ clock' = clock + 1
    /\ UNCHANGED <<conn, conversation, pending, files_modified, pendingFiles, faults,
                   ctx, sbVars, startVars, termVars, callVars, cliVars>>

\* One SessionState of a session, opened, driven by one caller.
InitStore ==
    /\ InitAll
    /\ tracing = FALSE
    /\ memory_exists = FALSE

NextStore ==
    \/ \E u \in Prompts, a \in Responses, how \in Hows : StoreAddExchange(u, a, how)
    \/ \E path \in Paths, how \in Hows : StoreMarkFileModified(path, how)
    \/ \E p \in Prompts : StoreBuildContextPrompt(p)
    \/ StoreClose
    \/ StoreOpen
    \/ Tick

SpecStore == InitStore /\ [][NextStore]_vars

\* ------------------------------------- ClaudeCliWrapper.stream_prompt, alone
\* One stream_prompt call with its process: the process writes stdout lines,
\* starts processes of its own (the commands the CLI runs), and exits; the
\* wrapper reads with a per-line timeout.

CliVarsRest == <<sbVars, startVars, termVars, callVars, storeVars, restVars>>

\* The prompts and tokens stream_prompt is called with, as words; one prompt
\* quotes a token.
CliPrompts == {<<"say", "hi">>, <<"use", "tok1">>}
Tokens == {"tok1", "tok2"}

\* (as Argv, handing the token to the CLI as an option)
ArgvWithToken(text, oauth_token) ==
    <<<<"claude">>, <<"--print">>, <<"--output-format">>, <<"stream-json">>,
      <<"--token">>, <<oauth_token>>, text>>

\* The arguments of create_subprocess_exec (claude_cli.py:77-81)
Argv(text, oauth_token) ==
    <<<<"claude">>, <<"--print">>, <<"--output-format">>, <<"stream-json">>, text>>

\* The two variables stream_prompt sets on its copy of os.environ
\* (claude_cli.py:69-71)
Env(oauth_token) == [CLAUDE_CODE_OAUTH_TOKEN |-> oauth_token, HOME |-> "/root"]

\* stream_prompt(prompt, oauth_token) runs to its first await, that of
\* asyncio.create_subprocess_exec (claude_cli.py:69-76)
CliStreamPrompt(p, tok) ==
    /\ cliPc = "idle"
    /\ cliPc' = "spawn"
    /\ cliArgs' = <<p, tok>>
    /\ UNCHANGED <<last_returncode, last_stderr, child, helpers, lines, exitcode, error_msg,
                   argv, childEnv, CliVarsRest>>

\* create_subprocess_exec returned the process (claude_cli.py:76-86); it is
\* not given a session or process group of its own.
CliSpawned ==
    /\ cliPc = "spawn"
    /\ child' = "running"
    /\ cliPc' = "read"
    /\ argv' = Argv(cliArgs[1], cliArgs[2])
    /\ childEnv' = Env(cliArgs[2])
    /\ UNCHANGED <<last_returncode, last_stderr, helpers, lines, exitcode, error_msg,
                   cliArgs, CliVarsRest>>

\* create_subprocess_exec raised: except Exception re-raises (claude_cli.py:117-119)
CliSpawnRaises ==
    /\ cliPc = "spawn"
    /\ cliPc' = "raised_error"
    /\ UNCHANGED <<last_returncode, last_stderr, child, helpers, lines, exitcode, error_msg, spawnVars, CliVarsRest>>

\* the CLI process starts a process of its own
ChildSpawnsHelper ==
    /\ child = "running"
    /\ helpers < MaxHelpers
    /\ helpers' = helpers + 1
    /\ UNCHANGED <<last_returncode, last_stderr, cliPc, child, lines, exitcode, error_msg, spawnVars, CliVarsRest>>

\* one of those processes ends by itself
HelperExits ==
    /\ helpers > 0
    /\ helpers' = helpers - 1
    /\ UNCHANGED <<last_returncode, last_stderr, cliPc, child, lines, exitcode, error_msg, spawnVars, CliVarsRest>>

\* the CLI process exits by itself with code rc
ChildExits(rc) ==
    /\ child = "running"
    /\ child' = "exited"
    /\ exitcode' = <<rc>>
    /\ UNCHANGED <<last_returncode, last_stderr, cliPc, helpers, lines, error_msg, spawnVars, CliVarsRest>>

\* proc.kill(): SIGKILL to the pid of proc, a no-op once it has exited
\* (claude_cli.py:114)
Kill ==
    /\ child' = IF child = "running" THEN "exited" ELSE child
    /\ exitcode' = IF child = "running" THEN <<-9>> ELSE exitcode
    /\ UNCHANGED helpers

\* readline() returned a line within the timeout (claude_cli.py:169-174)
CliReadLine ==
    /\ cliPc = "read"
    /\ child = "running"
    /\ lines < MaxLines
    /\ lines' = lines + 1
    /\ UNCHANGED <<last_returncode, last_stderr, cliPc, child, helpers, exitcode, error_msg, spawnVars, CliVarsRest>>

\* readline() returned b"": the loop breaks (claude_cli.py:170-172) and
\* proc.wait() is awaited for up to 10 s (claude_cli.py:93)
CliReadEof ==
    /\ cliPc = "read"
    /\ cliPc' = "wait"
    /\ UNCHANGED <<last_returncode, last_stderr, child, helpers, lines, exitcode, error_msg, spawnVars, CliVarsRest>>

\* wait_for(readline(), timeout) or wait_for(proc.wait(), 10) raised
\* TimeoutError while the process runs; the handler kills proc and awaits
\* proc.wait() (claude_cli.py:111-115)
CliTimeout ==
    /\ cliPc \in {"read", "wait"}
    /\ child = "running"
    /\ Kill
    /\ cliPc' = "killed"
    /\ UNCHANGED <<last_returncode, last_stderr, lines, error_msg, spawnVars, CliVarsRest>>

\* proc.wait() returned in the handler; TimeoutError is re-raised
\* (claude_cli.py:115-116)
CliTimeoutRaised ==
    /\ cliPc = "killed"
    /\ child = "exited"
    /\ cliPc' = "raised_timeout"
    /\ UNCHANGED <<last_returncode, last_stderr, child, helpers, lines, exitcode, error_msg, spawnVars, CliVarsRest>>

\* proc.wait() returned: last_returncode is set (claude_cli.py:93-94)
CliWaited ==
    /\ cliPc = "wait"
    /\ child = "exited"
    /\ last_returncode' = exitcode
    /\ cliPc' = "stderr"
    /\ UNCHANGED <<last_stderr, child, helpers, lines, exitcode, error_msg, spawnVars, CliVarsRest>>

\* stderr as the process wrote it, character by character: nothing, a plain
\* text, a text holding an OAuth token, a text longer than the excerpt.
Stderrs ==
    { <<>>,
      <<"e">>,
      <<"o", "a", "u", "t", "h", "_", "k">>,
      [i \in 1..(StderrExcerpt + 1) |-> "x"] }

\* self.last_stderr[:500] (claude_cli.py:105)
Excerpt(text) == SubSeq(text, 1, IF Len(text) < StderrExcerpt THEN Len(text) ELSE StderrExcerpt)

\* {self.last_returncode} inside the f-string (claude_cli.py:103)
CodeText(rc) == CASE rc = 0 -> "0" [] rc = 1 -> "1" [] rc = -9 -> "-9"

\* error_msg as built at claude_cli.py:103-105
ErrorMsg(rc, stderr) ==
    <<"Claude CLI exited with code ", CodeText(rc)>>
        \o (IF stderr # <<>> THEN <<": ">> \o Excerpt(stderr) ELSE <<>>)

\* stderr was read and the return code checked (claude_cli.py:97-109)
CliFinished(err) ==
    /\ cliPc = "stderr"
    /\ last_stderr' = <<err>>
    /\ cliPc' = IF last_returncode # <<0>> THEN "raised_error" ELSE "done"
    /\ error_msg' = IF last_returncode # <<0>> THEN ErrorMsg(last_returncode[1], err) ELSE <<>>
    /\ UNCHANGED <<last_returncode, child, helpers, lines, exitcode, spawnVars, CliVarsRest>>

InitCli ==
    /\ InitAll
    /\ tracing = FALSE
    /\ memory_exists = FALSE

NextCli ==
    \/ \E p \in CliPrompts, tok \in Tokens : CliStreamPrompt(p, tok)
    \/ CliSpawned
    \/ CliSpawnRaises
    \/ ChildSpawnsHelper
    \/ HelperExits
    \/ \E rc \in ReturnCodes : ChildExits(rc)
    \/ CliReadLine
    \/ CliReadEof
    \/ CliTimeout
    \/ CliTimeoutRaised
    \/ CliWaited
    \/ \E err \in Stderrs : CliFinished(err)

SpecCli == InitCli /\ [][NextCli]_vars

\* --------------------------- ClaudeCliWrapper._stream_json_chunks, line by line
Kinds == {"blank", "invalid", "array", "string", "number", "null"}
Types == {Absent, JStr("content_block_delta"), JStr("message_stop")}
Deltas == {Absent, JNull, JStr("s"), JObj(Absent), JObj(JStr("d")), JObj(JStr("")),
           JObj(JNum("5"))}
Texts == {Absent, JNull, JStr("t"), JStr(""), JNum("5")}
Contents == {Absent, JStr("c"), JNum("7")}

Lines ==
    {Line(k, Absent, Absent, Absent, Absent) : k \in Kinds}
       \cup {Line("object", ty, d, tx, c) : ty \in Types, d \in Deltas, tx \in Texts,
                                            c \in Contents}

\* delta.get("text", ""), delta being event.get("delta", {}) (claude_cli.py:198-199);
\* AttributeError when delta is no dict.
DeltaText(delta, top) ==
    IF delta = Absent THEN JStr("")
    ELSE IF delta[1] # "obj" THEN Raises
    ELSE IF delta[2] = "absent" THEN JStr("")
    ELSE <<delta[2], delta[3]>>

\* (as ExtractText, trying the content field before the text field)
ExtractTextContentFirst(event) ==
    IF event.kind # "object" THEN Raises
    ELSE IF event.type = JStr("content_block_delta") THEN DeltaText(event.delta, event.text)
    ELSE IF event.content # Absent /\ event.content[1] = "str" THEN event.content
    ELSE IF event.text # Absent THEN event.text
    ELSE JStr("")

\* _extract_text(event) (claude_cli.py:196-210); event.get raises
\* AttributeError when json.loads gave a list, a str, a number or None.
ExtractText(event) ==
    IF event.kind # "object" THEN Raises
    ELSE IF event.type = JStr("content_block_delta") THEN DeltaText(event.delta, event.text)
    ELSE IF event.text # Absent THEN event.text
    ELSE IF event.content # Absent /\ event.content[1] = "str" THEN event.content
    ELSE JStr("")

\* if text: (claude_cli.py:144)
Truthy(v) ==
    CASE v[1] = "str" -> v[2] # ""
      [] v[1] = "num" -> v[2] # "0"
      [] v[1] = "obj" -> v[2] # "absent"
      [] OTHER -> FALSE

\* One turn of the loop of _stream_json_chunks (claude_cli.py:138-150): a
\* blank line and a line json.loads rejects are skipped; any other exception
\* leaves the generator.
ReadsLine(l) ==
    /\ exPc = "reading"
    /\ exRead < MaxParsed
    /\ exRead' = exRead + 1
    /\ exLine' = l
    /\ LET text == IF l.kind \in {"blank", "invalid"} THEN NoText ELSE ExtractText(l)
       IN /\ exText' = text
          /\ exPc' = IF text = Raises THEN "raised" ELSE "reading"
          /\ exYielded' = IF text \notin {NoText, Raises} /\ Truthy(text)
                          THEN Append(exYielded, text) ELSE exYielded
    /\ UNCHANGED <<last_returncode, procVars, seedVars, moreVars, sbVars, startVars, termVars,
                   callVars, storeVars>>

\* readline() returned b"" (claude_cli.py:170-172)
ReadsEof ==
    /\ exPc = "reading"
    /\ exPc' = "eof"
    /\ UNCHANGED <<exLine, exText, exYielded, exRead, last_returncode, procVars, seedVars, moreVars,
                   sbVars, startVars, termVars, callVars, storeVars>>

InitExtract ==
    /\ InitAll
    /\ tracing = FALSE
    /\ memory_exists = FALSE

NextExtract ==
    \/ \E l \in Lines : ReadsLine(l)
    \/ ReadsEof

SpecExtract == InitExtract /\ [][NextExtract]_vars

\* ------------------- _seed_memory_if_needed of sessions sharing one volume
\* Every HarvestSandbox of a repository mounts the volume named after it
\* (sandbox.py:295-298, 341-343).  The volume is taken here at its most
\* favourable: a write by one sandbox is seen by every other at once.

SeedRest == <<sandbox, session_state, claude_cli_ready, created, live, startVars, termVars,
              callVars, last_returncode, procVars, extractVars, moreVars, storeVars>>

\* start() of session s reaches _seed_memory_if_needed and issues the check
\* (sandbox.py:425-429)
SeedCheckIssued(s) ==
    /\ seedPc[s] = "idle"
    /\ seedPc' = [seedPc EXCEPT ![s] = "check"]
    /\ UNCHANGED <<existedAtCheck, seedWritesBy, memory_exists, SeedRest>>

\* the check ran and returned its stdout; the seed command is issued when
\* that is "empty" (sandbox.py:431-436)
SeedCheckReturns(s) ==
    /\ seedPc[s] = "check"
    /\ existedAtCheck' = [existedAtCheck EXCEPT ![s] = IF memory_exists THEN "yes" ELSE "no"]
    /\ seedPc' = [seedPc EXCEPT ![s] = IF NeedsSeed(SeedCheckStdout) THEN "seed" ELSE "skipped"]
    /\ UNCHANGED <<seedWritesBy, memory_exists, SeedRest>>

\* the seed command ran: with /app/memory-seed.json in the image it opens
\* memory.jsonl with 'w' and writes the seed records (sandbox.py:436-474)
SeedReturns(s, seedInImage) ==
    /\ seedPc[s] = "seed"
    /\ seedPc' = [seedPc EXCEPT ![s] = "seeded"]
    /\ memory_exists' = (memory_exists \/ seedInImage)
    /\ seedWritesBy' = [seedWritesBy EXCEPT ![s] = IF seedInImage THEN @ + 1 ELSE @]
    /\ UNCHANGED <<existedAtCheck, SeedRest>>

\* exec.aio raised for the check or for the seed command
SeedRaises(s) ==
    /\ seedPc[s] \in {"check", "seed"}
    /\ seedPc' = [seedPc EXCEPT ![s] = IF seedPc[s] = "check" THEN "raised_check"
                                       ELSE "raised_seed"]
    /\ UNCHANGED <<existedAtCheck, seedWritesBy, memory_exists, SeedRest>>

InitSeed ==
    /\ InitAll
    /\ tracing = FALSE

NextSeed ==
    \E s \in Sessions :
       \/ SeedCheckIssued(s)
       \/ SeedCheckReturns(s)
       \/ \E seedInImage \in BOOLEAN : SeedReturns(s, seedInImage)
       \/ SeedRaises(s)

SpecSeed == InitSeed /\ [][NextSeed]_vars

\* ------------------------------------- HarvestSandbox._write_json_atomic
\* One call at a time, as _initialize_claude_cli makes them, with the shell
\* that exec starts followed command by command and a reader of the path.

WriteRest == <<sbVars, startVars, termVars, callVars, last_returncode, procVars,
               extractVars, seedVars, storeVars, versionVars, redactVars, execVars,
               filesVars, gitVars, seqVars>>

\* The top-level keys of the dict each creator passes (sandbox.py:538-545,
\* 552, 579-583).
Config(path) ==
    CASE path = "/root/.claude.json" ->
            <<"hasCompletedOnboarding", "lastOnboardingVersion",
              "bypassPermissionsModeAccepted", "projects">>
      [] path = "/root/.claude/.claude.json" -> <<"hasCompletedOnboarding", "theme">>
      [] path = "/root/.claude/settings.json" -> <<"permissions", "hooks", "enabledPlugins">>

\* json.dumps(data, indent=2): the lines of the document (sandbox.py:516)
Dumps(data) == <<"{">> \o data \o <<"}">>

\* The string handed to bash -c, as its lines of words (sandbox.py:523):
\*   cat > {path}.tmp << 'JSONEOF' \n {content} \n JSONEOF \n && mv {path}.tmp {path}
Script(path, content) ==
    << <<"cat", ">", Tmp(path), "<<", "JSONEOF">> >>
    \o [i \in 1..Len(content) |-> <<content[i]>>]
    \o << <<"JSONEOF">>, <<"&&", "mv", Tmp(path), path>> >>

\* bash: the commands of one line, split at &&
RECURSIVE AndList(_)
AndList(words) ==
    IF words = <<>> THEN << <<>> >>
    ELSE IF Head(words) = "&&" THEN << <<>> >> \o AndList(Tail(words))
    ELSE LET r == AndList(Tail(words)) IN << <<Head(words)>> \o Head(r) >> \o Tail(r)

HasHereDoc(words) == \E i \in 1..Len(words) - 1 : words[i] = "<<"
HereDelim(words) == words[(CHOOSE i \in 1..Len(words) - 1 : words[i] = "<<") + 1]

\* bash: the here-document runs to the first line that is the delimiter alone
\* (to the end of the script when there is none)
BodyLen(rest, delim) ==
    IF \E i \in 1..Len(rest) : rest[i] = <<delim>>
    THEN (CHOOSE i \in 1..Len(rest) :
              rest[i] = <<delim>> /\ \A j \in 1..(i - 1) : rest[j] # <<delim>>) - 1
    ELSE Len(rest)

\* _write_json_atomic(path, Config(path)) is called and awaits exec
\* (sandbox.py:516-524)
WriteJsonAtomic(path) ==
    /\ wjPc \in {"idle", "returned"}
    /\ writes < MaxWrites
    /\ writes' = writes + 1
    /\ wjPath' = path
    /\ wjContent' = Dumps(Config(path))
    /\ wjScript' = Script(path, Dumps(Config(path)))
    /\ wjQueue' = <<>>
    /\ wjBody' = <<>>
    /\ wjRc' = 0
    /\ wjPc' = "shell"
    /\ before' = fs[path]
    /\ observed' = {}
    /\ UNCHANGED <<fs, WriteRest>>

\* bash reads the next line of the script and parses it: a line that starts
\* with && is a syntax error, which ends the shell with status 2; at the end
\* of the script the shell exits with the status of its last command
ShellReadsLine ==
    /\ wjPc = "shell"
    /\ wjQueue = <<>>
    /\ IF wjScript = <<>>
       THEN /\ wjPc' = "exited"
            /\ UNCHANGED <<wjRc, wjScript, wjQueue, wjBody>>
       ELSE LET line == Head(wjScript)
                rest == Tail(wjScript)
            IN IF Head(line) = "&&"
               THEN /\ wjRc' = 2
                    /\ wjPc' = "exited"
                    /\ UNCHANGED <<wjScript, wjQueue, wjBody>>
               ELSE /\ wjQueue' = AndList(line)
                    /\ IF HasHereDoc(line)
                       THEN LET n == BodyLen(rest, HereDelim(line))
                            IN /\ wjBody' = [i \in 1..n |-> rest[i][1]]
                               /\ wjScript' = SubSeq(rest, n + 2, Len(rest))
                       ELSE /\ wjBody' = <<>>
                            /\ wjScript' = rest
                    /\ UNCHANGED <<wjRc, wjPc>>
    /\ UNCHANGED <<fs, wjPath, wjContent, writes, before, observed, WriteRest>>

\* bash runs the next command of the line: cat's redirection creates or
\* truncates its target; mv renames its source onto its target in one step;
\* a failed command ends an && list
ShellRunsCommand ==
    /\ wjPc = "shell"
    /\ wjQueue # <<>>
    /\ LET cmd == Head(wjQueue)
       IN IF cmd[1] = "cat"
          THEN /\ fs' = [fs EXCEPT ![cmd[3]] = <<>>]
               /\ wjPc' = "cat"
               /\ UNCHANGED <<wjQueue, wjRc>>
          ELSE IF fs[cmd[2]] = NoFile
          THEN /\ wjRc' = 1
               /\ wjQueue' = <<>>
               /\ UNCHANGED <<fs, wjPc>>
          ELSE /\ fs' = [fs EXCEPT ![cmd[3]] = fs[cmd[2]], ![cmd[2]] = NoFile]
               /\ wjRc' = 0
               /\ wjQueue' = Tail(wjQueue)
               /\ UNCHANGED wjPc
    /\ UNCHANGED <<wjPath, wjContent, wjScript, wjBody, writes, before, observed, WriteRest>>

\* cat copies the next part of the here-document to its target, or, at the
\* end of it, exits with status 0
CatWrites ==
    /\ wjPc = "cat"
    /\ LET target == Head(wjQueue)[3]
       IN IF wjBody # <<>>
          THEN /\ fs' = [fs EXCEPT ![target] = Append(@, Head(wjBody))]
               /\ wjBody' = Tail(wjBody)
               /\ UNCHANGED <<wjPc, wjQueue, wjRc>>
          ELSE /\ wjPc' = "shell"
               /\ wjQueue' = Tail(wjQueue)
               /\ wjRc' = 0
               /\ UNCHANGED <<fs, wjBody>>
    /\ UNCHANGED <<wjPath, wjContent, wjScript, writes, before, observed, WriteRest>>

\* exec returned; _write_json_atomic returns without reading the return
\* code (sandbox.py:520-524)
WriteReturns ==
    /\ wjPc = "exited"
    /\ wjPc' = "returned"
    /\ UNCHANGED <<fs, wjPath, wjContent, wjScript, wjQueue, wjBody, wjRc, writes, before,
                   observed, WriteRest>>

\* some process of the sandbox reads the path being written
ReaderReads ==
    /\ wjPc # "idle"
    /\ observed' = observed \cup {fs[wjPath]}
    /\ UNCHANGED <<fs, wjPc, wjPath, wjContent, wjScript, wjQueue, wjBody, wjRc, writes,
                   before, WriteRest>>

\* The sandbox's files before _initialize_claude_cli: each configuration
\* file absent or left complete by an earlier writer, no temporary file.
InitWriteSpec ==
    /\ InitSandbox
    /\ tracing = FALSE
    /\ memory_exists = FALSE
    /\ InitVersion
    /\ InitRedact
    /\ InitExec
    /\ InitFiles
    /\ InitGit
    /\ fs \in {f \in [Files -> {NoFile, OldDoc}] : \A p \in ConfigPaths : f[Tmp(p)] = NoFile}

NextWrite ==
    \/ \E path \in ConfigPaths : WriteJsonAtomic(path)
    \/ ShellReadsLine
    \/ ShellRunsCommand
    \/ CatWrites
    \/ WriteReturns
    \/ ReaderReads

SpecWrite == InitWriteSpec /\ [][NextWrite]_vars

\* -------------------------------- HarvestSandbox._get_claude_version_safe

VersionRest == <<sbVars, startVars, termVars, callVars, last_returncode, procVars,
                 extractVars, seedVars, storeVars, writeVars, redactVars, execVars,
                 filesVars, gitVars, seqVars>>

Digit == {"1", "2"}
Whitespace == {" "}
Chars == Digit \cup Whitespace \cup {".", "v"}
Outputs == UNION {[1..n -> Chars] : n \in 0..MaxOut}

\* str.strip()
RECURSIVE LStrip(_)
LStrip(s) == IF s # <<>> /\ Head(s) \in Whitespace THEN LStrip(Tail(s)) ELSE s
Strip(s) == Reversed(LStrip(Reversed(LStrip(s))))

\* \d+ from position i, greedy: the position of its last digit, i - 1 if
\* s[i] is no digit
RECURSIVE DigitsEnd(_, _)
DigitsEnd(s, i) == IF i <= Len(s) /\ s[i] \in Digit THEN DigitsEnd(s, i + 1) ELSE i - 1

DotAt(s, i) == i <= Len(s) /\ s[i] = "."

\* (\d+\.\d+\.\d+) tried at position i: the end of the match, 0 if none
\* (giving digits back never helps: what follows them must be the dot)
MatchAt(s, i) ==
    LET a == DigitsEnd(s, i)
        b == DigitsEnd(s, a + 2)
        c == DigitsEnd(s, b + 2)
    IN IF a >= i /\ DotAt(s, a + 1) /\ b >= a + 2 /\ DotAt(s, b + 1) /\ c >= b + 2
       THEN c ELSE 0

\* (as Search, but anchored at the start like re.match)
SearchAtStart(s) == IF 1 <= Len(s) /\ MatchAt(s, 1) # 0 THEN SubSeq(s, 1, MatchAt(s, 1)) ELSE <<>>

\* re.search(...).group(1): the match at the first position that has one,
\* <<>> for None (sandbox.py:495-498)
Search(s) ==
    IF \E i \in 1..Len(s) : MatchAt(s, i) # 0
    THEN LET i == CHOOSE k \in 1..Len(s) :
                      MatchAt(s, k) # 0 /\ \A j \in 1..(k - 1) : MatchAt(s, j) = 0
         IN SubSeq(s, i, MatchAt(s, i))
    ELSE <<>>

\* return "2.1.3" (sandbox.py:507)
FallbackVersion == <<"2", ".", "1", ".", "3">>

\* sandbox.py:491-507
ParseVersion(stdout) ==
    LET match == Search(Strip(stdout))
    IN IF match # <<>> THEN match ELSE FallbackVersion

\* claude --version returned: a non-zero return code raises RuntimeError,
\* otherwise the version is parsed from stdout (sandbox.py:485-507)
VersionProbeReturns ==
    /\ verPc = "probe"
    /\ IF verRc # 0
       THEN /\ verPc' = "raised"
            /\ verResult' = <<>>
       ELSE /\ verPc' = "returned"
            /\ verResult' = ParseVersion(verOut)
    /\ UNCHANGED <<verRc, verOut, VersionRest>>

\* _get_claude_version_safe awaiting exec, for every output of the probe
InitVersionSpec ==
    /\ InitSandbox
    /\ tracing = FALSE
    /\ memory_exists = FALSE
    /\ fs = [f \in Files |-> NoFile]
    /\ InitRedact
    /\ InitExec
    /\ InitFiles
    /\ InitGit
    /\ verPc = "probe"
    /\ verRc \in ReturnCodes
    /\ verOut \in Outputs
    /\ verResult = <<>>

NextVersion == VersionProbeReturns

SpecVersion == InitVersionSpec /\ [][NextVersion]_vars

\* ------------------------------------------------------------ the Redactor
\* redact(text): an ordered list of rules, each replacing every match of its
\* pattern by its marker; the provider rules (a prefix followed by a run of
\* token characters) come before the generic rule (an alphanumeric run of
\* TokenThreshold characters or more).  Texts are sequences of characters.

RedactRest == <<sbVars, startVars, termVars, callVars, last_returncode, procVars,
                extractVars, seedVars, storeVars, writeVars, versionVars, execVars,
                filesVars, gitVars, seqVars>>

Alnum ==
    {"a", "b", "c", "d", "e", "f", "g", "h", "i", "j", "k", "l", "m", "n", "o", "p", "q", "r", "s", "t", "u", "v", "w", "x", "y", "z"} \cup
    {"A", "B", "C", "D", "E", "F", "G", "H", "I", "J", "K", "L", "M", "N", "O", "P", "Q", "R", "S", "T", "U", "V", "W", "X", "Y", "Z"} \cup
    {"0", "1", "2", "3", "4", "5", "6", "7", "8", "9"}
\* the characters a provider token is made of after its prefix
TokenChar == Alnum

Redacted == <<"R", "E", "D", "A", "C", "T", "E", "D">>
\* prefix and marker of each provider rule, in rule order
ProviderRules ==
    << [prefix |-> <<"o", "a", "u", "t", "h", "_">>, marker |-> <<"o", "a", "u", "t", "h", "_">> \o Redacted],
       [prefix |-> <<"g", "h", "p", "_">>, marker |-> <<"g", "h", "p", "_">> \o Redacted],
       [prefix |-> <<"g", "h", "o", "_">>, marker |-> <<"g", "h", "o", "_">> \o Redacted],
       [prefix |-> <<"g", "i", "t", "h", "u", "b", "_", "p", "a", "t", "_">>, marker |-> <<"g", "i", "t", "h", "u", "b", "_", "p", "a", "t", "_">> \o Redacted] >>
TokenMarker == <<"T", "O", "K", "E", "N", "_">> \o Redacted

Least(set) == CHOOSE x \in set : \A y \in set : x <= y

\* the position of the last character of the run of cls that starts at i
\* (i - 1 if text[i] is not in cls)
RunEnd(text, i, cls) ==
    LET others == {j \in i..Len(text) : text[j] \notin cls}
    IN IF others = {} THEN Len(text) ELSE Least(others) - 1

\* prefix TokenChar+ matches at position i
MatchesAt(text, i, prefix) ==
    /\ text[i] = prefix[1]
    /\ i + Len(prefix) <= Len(text)
    /\ SubSeq(text, i, i + Len(prefix) - 1) = prefix
    /\ text[i + Len(prefix)] \in TokenChar

\* (as MatchEnd, but taking one token character only)
MatchEndLazy(text, j, prefix) == j + Len(prefix)

\* where the match of prefix TokenChar+ that starts at j ends: the run of
\* token characters is taken whole
MatchEnd(text, j, prefix) == RunEnd(text, j + Len(prefix), TokenChar)

\* one provider rule over the text from position i: every leftmost,
\* longest, non-overlapping match of prefix TokenChar+ becomes the marker,
\* what lies between the matches is copied
RECURSIVE SubProvider(_, _, _)
SubProvider(text, i, rule) ==
    LET matches == {j \in i..Len(text) : MatchesAt(text, j, rule.prefix)}
    IN IF matches = {} THEN SubSeq(text, i, Len(text))
       ELSE LET j == Least(matches)
                e == MatchEnd(text, j, rule.prefix)
            IN SubSeq(text, i, j - 1) \o rule.marker \o SubProvider(text, e + 1, rule)

\* the generic rule over the text from position i: an alphanumeric run is
\* replaced whole when it has TokenThreshold characters or more, and is
\* copied otherwise (no part of a shorter run can match)
RECURSIVE SubGeneric(_, _)
SubGeneric(text, i) ==
    IF i > Len(text) THEN <<>>
    ELSE IF text[i] \notin Alnum THEN <<text[i]>> \o SubGeneric(text, i + 1)
    ELSE LET e == RunEnd(text, i, Alnum)
         IN IF e - i + 1 >= TokenThreshold THEN TokenMarker \o SubGeneric(text, e + 1)
            ELSE SubSeq(text, i, e) \o SubGeneric(text, e + 1)

RECURSIVE ApplyProviders(_, _)
ApplyProviders(text, k) ==
    IF k > Len(ProviderRules) THEN text
    ELSE ApplyProviders(SubProvider(text, 1, ProviderRules[k]), k + 1)

\* (as Redact, with the generic rule before the provider rules)
RedactGenericFirst(text) == ApplyProviders(SubGeneric(text, 1), 1)

Redact(text) == SubGeneric(ApplyProviders(text, 1), 1)

\* Words a text is composed of: the text of each and what has to stand in
\* its place after redaction.
Run(n) == [i \in 1..n |-> "a"]
Plain(text) == [text |-> text, expect |-> text, token |-> FALSE]
Credential(text, marker) == [text |-> text, expect |-> marker, token |-> TRUE]
Words ==
    { Plain(<<"o", "k">>), Plain(<<"k", "e", "y", "_", "1">>), Plain(Run(TokenThreshold - 1)),
      Plain(TokenMarker), Plain(ProviderRules[2].marker),
      Credential(<<"o", "a", "u", "t", "h", "_">> \o <<"a", "b", "1">>, ProviderRules[1].marker),
      Credential(<<"g", "h", "p", "_">> \o <<"a", "b", "1">>, ProviderRules[2].marker),
      Credential(<<"g", "h", "o", "_">> \o <<"a", "b", "1">>, ProviderRules[3].marker),
      Credential(<<"g", "i", "t", "h", "u", "b", "_", "p", "a", "t", "_">> \o <<"a", "b", "1">>, ProviderRules[4].marker),
      Credential(Run(TokenThreshold), TokenMarker),
      Credential(<<"g", "h", "p", "_">> \o Run(TokenThreshold), ProviderRules[2].marker) }
Markers == {ProviderRules[i].marker : i \in 1..Len(ProviderRules)} \cup {TokenMarker}
\* what stands between two words (nothing: the words are adjacent)
Separators == {<<>>, <<" ">>, <<".", " ">>}

\* the words joined by the separators
RECURSIVE Compose(_, _, _)
Compose(words, seps, field) ==
    IF words = <<>> THEN <<>>
    ELSE IF Len(words) = 1 THEN Head(words)[field]
    ELSE Head(words)[field] \o Head(seps) \o Compose(Tail(words), Tail(seps), field)

RedIn == Compose(redWords, redSeps, "text")

\* a text is given to the Redactor
RedactGiven(words, seps) ==
    /\ redPc = "idle"
    /\ redPc' = "given"
    /\ redWords' = words
    /\ redSeps' = seps
    /\ UNCHANGED <<redOut, redTwice, fs, RedactRest>>

\* it is redacted, and what that returned is redacted again
RedactApplied ==
    /\ redPc = "given"
    /\ redPc' = "done"
    /\ redOut' = Redact(RedIn)
    /\ redTwice' = Redact(Redact(RedIn))
    /\ UNCHANGED <<redWords, redSeps, fs, RedactRest>>

InitRedactSpec ==
    /\ InitAll
    /\ tracing = FALSE
    /\ memory_exists = FALSE

NextRedact ==
    \/ \E n \in 0..MaxWords :
          \E words \in [1..n -> Words], seps \in [1..(n - 1) -> Separators] :
             RedactGiven(words, seps)
    \/ RedactApplied

SpecRedact == InitRedactSpec /\ [][NextRedact]_vars

\* ------------------------- SandboxExecutor.execute and HarvestSandbox.exec

ExecuteRest == <<sbVars, startVars, termVars, callVars, last_returncode, procVars,
                 extractVars, seedVars, storeVars, writeVars, versionVars, redactVars,
                 filesVars, gitVars, seqVars>>

\* ExecutionResult (types.py:17-37), its output and timing fields left out
Result(rc, status) == [returncode |-> rc, status |-> status]

\* ExecutionResult.succeeded (types.py:39-42)
Succeeded(r) == r.returncode = 0 /\ r.status = "success"

\* (as StatusOf, reporting success whatever the exit code)
StatusOfAny(rc) == "success"

\* SUCCESS if returncode == 0 else ERROR (sandbox.py:125-127, 688-692)
StatusOf(rc) == IF rc = 0 THEN "success" ELSE "error"

\* the handlers of execute (sandbox.py:142-164) and of exec (694-704)
TimeoutResult == Result(-1, "timeout")
CrashedResult == Result(-1, "crashed")

\* the calls execute makes on the provisioning API inside its try block, in
\* order: Sandbox.create, exec mkdir, open and write, exec python, the reads
\* of stdout, stderr and returncode (sandbox.py:93-120)
ExecuteSteps == <<"create", "mkdir", "write", "run", "read">>
StepAfter(step) ==
    ExecuteSteps[(CHOOSE i \in 1..Len(ExecuteSteps) : ExecuteSteps[i] = step) + 1]

\* (as NeedsCleanup, never terminating)
NoCleanup(sb) == FALSE

\* if sb is not None: sb.terminate() (sandbox.py:169-170)
NeedsCleanup(sb) == sb # 0

\* (as AfterCleanup, letting a failure of terminate() leave execute)
AfterCleanupPropagates(ok) == IF ok THEN "returned" ELSE "raised"

\* except Exception: pass (sandbox.py:171-172): the return goes ahead
AfterCleanup(ok) == "returned"

\* execute is called (sandbox.py:81-84)
ExecuteCall ==
    /\ xPc \in {"idle", "returned"}
    /\ executes < MaxExecutes
    /\ executes' = executes + 1
    /\ xPc' = "create"
    /\ xSb' = 0
    /\ xPending' = <<>>
    /\ xPath' = "none"
    /\ xCleanup' = "none"
    /\ UNCHANGED <<xMade, xTermCalls, xResults, hPc, hResults, ExecuteRest>>

\* a call before the reads returned: Sandbox.create binds sb
ExecuteStepReturns ==
    /\ xPc \in {"create", "mkdir", "write", "run"}
    /\ xPc' = StepAfter(xPc)
    /\ IF xPc = "create"
       THEN /\ xMade' = xMade + 1
            /\ xSb' = xMade + 1
       ELSE UNCHANGED <<xMade, xSb>>
    /\ UNCHANGED <<xTermCalls, xPending, xPath, xCleanup, xResults, executes, hPc, hResults,
                   ExecuteRest>>

\* the process ended with return code rc and the reads returned: the return
\* statement builds its result (sandbox.py:118-140) and the finally block is
\* entered
ExecuteReads(rc) ==
    /\ xPc = "read"
    /\ xPending' = <<Result(rc, StatusOf(rc))>>
    /\ xPath' = "normal"
    /\ xPc' = "finally"
    /\ UNCHANGED <<xSb, xMade, xTermCalls, xCleanup, xResults, executes, hPc, hResults,
                   ExecuteRest>>

\* a call inside the try block raised: SandboxTimeoutError is handled at
\* sandbox.py:142-152, any other Exception at 154-164
ExecuteStepRaises(timeout) ==
    /\ xPc \in {"create", "mkdir", "write", "run", "read"}
    /\ xPending' = <<IF timeout THEN TimeoutResult ELSE CrashedResult>>
    /\ xPath' = IF timeout THEN "timeout" ELSE "crash"
    /\ xPc' = "finally"
    /\ UNCHANGED <<xSb, xMade, xTermCalls, xCleanup, xResults, executes, hPc, hResults,
                   ExecuteRest>>

\* the finally block (sandbox.py:166-172) and the return it precedes
ExecuteCleanup(ok) ==
    /\ xPc = "finally"
    /\ IF NeedsCleanup(xSb)
       THEN /\ xTermCalls' = Append(xTermCalls, xSb)
            /\ xCleanup' = IF ok THEN "ok" ELSE "raised"
            /\ xPc' = AfterCleanup(ok)
            /\ xResults' = IF AfterCleanup(ok) = "returned" THEN xResults \o xPending
                           ELSE xResults
       ELSE /\ ok
            /\ xPc' = "returned"
            /\ xResults' = xResults \o xPending
            /\ UNCHANGED <<xTermCalls, xCleanup>>
    /\ UNCHANGED <<xSb, xMade, xPending, xPath, executes, hPc, hResults, ExecuteRest>>

HExecRest == <<xPc, xSb, xMade, xTermCalls, xPending, xPath, xCleanup, xResults, executes,
               ExecuteRest>>

\* HarvestSandbox.exec is called: RuntimeError without a sandbox, otherwise
\* exec.aio is awaited (sandbox.py:671-678)
HExecCall ==
    /\ hPc \in {"idle", "raised"}
    /\ Len(hResults) < MaxExecutes
    /\ hPc' = IF sandbox = 0 THEN "raised" ELSE "await"
    /\ UNCHANGED <<hResults, HExecRest>>

\* exec.aio returned a process with return code rc: the result is built
\* (sandbox.py:681-692); reading self.sandbox.object_id raises inside the
\* try block when terminate() has cleared self.sandbox meanwhile
HExecReturns(rc) ==
    /\ hPc = "await"
    /\ hPc' = "idle"
    /\ hResults' = Append(hResults, IF sandbox = 0 THEN CrashedResult
                                    ELSE Result(rc, StatusOf(rc)))
    /\ UNCHANGED HExecRest

\* exec.aio raised (sandbox.py:694-704)
HExecRaises ==
    /\ hPc = "await"
    /\ hPc' = "idle"
    /\ hResults' = Append(hResults, CrashedResult)
    /\ UNCHANGED HExecRest

NextExecute ==
    \/ ExecuteCall
    \/ ExecuteStepReturns
    \/ \E rc \in ReturnCodes : ExecuteReads(rc)
    \/ \E timeout \in BOOLEAN : ExecuteStepRaises(timeout)
    \/ \E ok \in BOOLEAN : ExecuteCleanup(ok)
    \/ HExecCall
    \/ \E rc \in ReturnCodes : HExecReturns(rc)
    \/ HExecRaises
    \/ TerminateNext

\* A SandboxExecutor, and a Ready HarvestSandbox whose exec is called while
\* terminate() may run.
SpecExecute == InitReady /\ [][NextExecute]_vars

\* ------------------------------ the modified-file registry of SessionState

FilesRest == <<sbVars, startVars, termVars, callVars, last_returncode, procVars,
               extractVars, seedVars, writeVars, versionVars, redactVars, execVars,
               gitVars, seqVars>>

FilePaths == {"a.py", "b.py", "c.py"}

\* the orders in which SELECT path FROM files_modified ORDER BY timestamp
\* DESC may return the rows: any order with no timestamp rising (SQL leaves
\* the order of rows with equal timestamps open)
ByTimestampDesc(table) ==
    {order \in [1..Cardinality(table) -> table] :
        /\ \A i, j \in 1..Cardinality(table) : i # j => order[i] # order[j]
        /\ \A i \in 1..(Cardinality(table) - 1) : order[i].timestamp >= order[i + 1].timestamp}

\* mark_file_modified(path) returned (session_state.py:135-142)
FilesMark(path) ==
    /\ conn = "open"
    /\ Len(marked) < MaxMarks
    /\ MarkFileModified(path, "ok")
    /\ marked' = Append(marked, path)
    /\ UNCHANGED <<listed, listedAt, conn, clock, ctx, FilesRest>>

\* get_modified_files() (session_state.py:150-156)
FilesGet ==
    /\ conn = "open"
    /\ \E order \in ByTimestampDesc(FilesView) :
          listed' = [i \in 1..Len(order) |-> order[i].path]
    /\ listedAt' = Len(marked)
    /\ UNCHANGED <<marked, storeVars, FilesRest>>

\* time.time() has moved on
FilesTick ==
    /\ clock < MaxClock
    /\ clock' = clock + 1
    /\ UNCHANGED <<conn, conversation, pending, files_modified, pendingFiles, faults, ctx,
                   filesVars, FilesRest>>

\* An open SessionState whose registry is marked and listed by one caller.
InitFilesSpec ==
    /\ InitAll
    /\ tracing = FALSE
    /\ memory_exists = FALSE

NextFiles ==
    \/ StoreOpen
    \/ \E path \in FilePaths : FilesMark(path)
    \/ FilesGet
    \/ FilesTick

SpecFiles == InitFilesSpec /\ [][NextFiles]_vars

\* ------------------------------------------ the git commands of start()
\* _configure_git and _clone_repo, command by command, for every session.
\* An argument is the sequence of the parts its f-string joins; an argument
\* vector is a sequence of arguments.

GitRest == <<sbVars, startVars, termVars, callVars, last_returncode, procVars,
             extractVars, seedVars, storeVars, writeVars, versionVars, redactVars,
             execVars, filesVars, seqVars>>

Owners == {"RelevanceAI", "acme"}
Names == {"harvest", "app"}
Branches == {"main", "dev"}
HarvestSessions ==
    {Session(t, o, n, b) : t \in Tokens, o \in Owners, n \in Names, b \in Branches}

\* repo_path (sandbox.py:239-242)
RepoPath(session) == <<"/workspace/", session.repo_name>>

\* (as RepoUrl, with the token embedded in the URL)
RepoUrlWithToken(session) ==
    <<"https://x-access-token:", session.github_token, "@github.com/",
      session.repo_owner, "/", session.repo_name, ".git">>

\* repo_url (sandbox.py:364-366)
RepoUrl(session) ==
    <<"https://github.com/", session.repo_owner, "/", session.repo_name, ".git">>

\* creds and the bash command that stores them (sandbox.py:395-400)
CredentialsScript(session) ==
    <<"printf '%s\\n' '", "https://x-access-token:", session.github_token, "@github.com",
      "' > ~/.git-credentials && chmod 600 ~/.git-credentials">>

GitConfig(key, value) == << <<"git">>, <<"config">>, <<"--global">>, <<key>>, value >>

\* the argument vectors _configure_git (sandbox.py:389-420) and then
\* _clone_repo (369-376) hand to exec, in order
GitCommands(session) ==
    << GitConfig("credential.helper", <<"store">>),
       << <<"bash">>, <<"-c">>, CredentialsScript(session) >>,
       GitConfig("user.email", <<session.user_email>>),
       GitConfig("user.name", <<session.user_name, " (Harvest)">>),
       GitConfig("push.autoSetupRemote", <<"true">>),
       GitConfig("init.defaultBranch", <<"main">>),
       << <<"git">>, <<"clone">>, <<"--branch">>, <<session.branch>>, RepoUrl(session),
          RepoPath(session) >> >>

IsClone(cmd) == cmd[1] = <<"git">> /\ cmd[2] = <<"clone">>

\* the next command is handed to exec
GitIssue ==
    /\ gitPc = "ready"
    /\ gitIssued' = Append(gitIssued, GitCommands(gitSession)[Len(gitIssued) + 1])
    /\ gitPc' = "await"
    /\ UNCHANGED <<gitSession, GitRest>>

\* exec returned with return code rc, which only _clone_repo reads
\* (sandbox.py:378-380)
GitReturns(rc) ==
    /\ gitPc = "await"
    /\ gitPc' = IF IsClone(gitIssued[Len(gitIssued)])
                THEN (IF rc # 0 THEN "raised" ELSE "done")
                ELSE "ready"
    /\ UNCHANGED <<gitSession, gitIssued, GitRest>>

\* exec raised
GitRaises ==
    /\ gitPc = "await"
    /\ gitPc' = "raised"
    /\ UNCHANGED <<gitSession, gitIssued, GitRest>>

InitGitSpec ==
    /\ InitSandbox
    /\ tracing = FALSE
    /\ memory_exists = FALSE
    /\ fs = [f \in Files |-> NoFile]
    /\ InitVersion
    /\ InitRedact
    /\ InitExec
    /\ InitFiles
    /\ gitSession \in HarvestSessions
    /\ gitPc = "ready"
    /\ gitIssued = <<>>

NextGit ==
    \/ GitIssue
    \/ \E rc \in ReturnCodes : GitReturns(rc)
    \/ GitRaises

SpecGit == InitGitSpec /\ [][NextGit]_vars

\* ------------------- ClaudeCliWrapper.stream_prompt, calls one after another
\* One wrapper, its stream_prompt called again once the previous call has
\* ended, under a clock: each call has its timeout argument, the process it
\* spawned, and a consumer that resumes, abandons or cancels the generator.

SeqRest == <<sbVars, startVars, termVars, callVars, storeVars, cliPc, child, helpers, lines,
             exitcode, error_msg, spawnVars, extractVars, seedVars, writeVars, versionVars,
             redactVars, execVars, filesVars, gitVars>>

\* the ways a stream_prompt call is over: the generator is exhausted
\* (claude_cli.py:109), RuntimeError for the exit code (107), TimeoutError
\* (116), another exception (119), GeneratorExit at the yield (90),
\* CancelledError at an await
SeqEnded == {"done", "raised_exit", "raised_timeout", "raised_error", "closed", "cancelled"}

\* what the process of the k-th call writes to stderr, character by character
StderrOf(k) == IF k = 1 THEN <<"e", "1">> ELSE <<"e", "2">>

\* asyncio.subprocess.Process: the call that spawned it, proc.returncode
\* (<<>> while it runs) and its stderr
Proc(call) == [call |-> call, state |-> "running", code |-> <<>>, stderr |-> StderrOf(call)]

\* the proc of the latest call (claude_cli.py:76)
CurProc == qProcs[Len(qProcs)]
HasProc == Len(qProcs) > 0 /\ qProcs[Len(qProcs)].call = qCalls

Exited(p, rc) == [p EXCEPT !.state = "exited", !.code = <<rc>>]

\* proc.kill() then proc.wait() (claude_cli.py:114-115): a no-op on a
\* process that has exited
SeqKill(procs) ==
    IF procs[Len(procs)].state = "running"
    THEN [procs EXCEPT ![Len(procs)] = Exited(procs[Len(procs)], -9)]
    ELSE procs

\* stream_prompt(prompt, oauth_token, cwd, timeout) is called and runs to
\* the await of create_subprocess_exec (claude_cli.py:69-76)
SeqStreamPrompt(t) ==
    /\ qPc \in {"idle"} \cup SeqEnded
    /\ qCalls < MaxSeqCalls
    /\ qCalls' = qCalls + 1
    /\ qTimeout' = t
    /\ qElapsed' = 0
    /\ qWaitFrom' = 0
    /\ qReadUntil' = 0
    /\ qLines' = 0
    /\ qPc' = "spawn"
    /\ UNCHANGED <<qProcs, last_returncode, last_stderr, SeqRest>>

\* create_subprocess_exec returned proc; _read_lines_with_timeout awaits
\* the first readline() (claude_cli.py:76-89, 138, 170)
SeqSpawned ==
    /\ qPc = "spawn"
    /\ qProcs' = Append(qProcs, Proc(qCalls))
    /\ qWaitFrom' = qElapsed
    /\ qPc' = "read"
    /\ UNCHANGED <<qCalls, qTimeout, qElapsed, qReadUntil, qLines, last_returncode,
                   last_stderr, SeqRest>>

\* create_subprocess_exec raised (claude_cli.py:117-119)
SeqSpawnRaises ==
    /\ qPc = "spawn"
    /\ qPc' = "raised_error"
    /\ UNCHANGED <<qCalls, qTimeout, qElapsed, qWaitFrom, qReadUntil, qLines, qProcs,
                   last_returncode, last_stderr, SeqRest>>

\* a process exits by itself with code rc
SeqChildExits(i, rc) ==
    /\ i \in 1..Len(qProcs)
    /\ qProcs[i].state = "running"
    /\ qProcs' = [qProcs EXCEPT ![i] = Exited(qProcs[i], rc)]
    /\ UNCHANGED <<qPc, qCalls, qTimeout, qElapsed, qWaitFrom, qReadUntil, qLines,
                   last_returncode, last_stderr, SeqRest>>

\* the clock advances while the call awaits its process; a pending
\* wait_for(readline(), timeout) does not outlast its timeout
\* (claude_cli.py:170)
SeqTick ==
    /\ qPc \in {"read", "wait"}
    /\ qElapsed < MaxTime
    /\ qPc = "read" => qElapsed - qWaitFrom < qTimeout
    /\ qElapsed' = qElapsed + 1
    /\ UNCHANGED <<qPc, qCalls, qTimeout, qWaitFrom, qReadUntil, qLines, qProcs,
                   last_returncode, last_stderr, SeqRest>>

\* what a stdout line leads to in _stream_json_chunks (claude_cli.py:139-150):
\* a text to yield, nothing (blank, not JSON, no text), or an exception of
\* _extract_text (a JSON value that is no object)
LineKinds == {"text", "skip", "bad"}

\* readline() returned a line before its timeout (claude_cli.py:170-174):
\* a text is yielded up to the consumer (146, 90); a skipped line leads to
\* the next readline(); an exception passes the handler of line 117
\* unchanged, which does not touch proc
SeqReadLine(kind) ==
    /\ qPc = "read"
    /\ CurProc.state = "running"
    /\ qLines < MaxLines
    /\ qElapsed - qWaitFrom < qTimeout
    /\ qLines' = qLines + 1
    /\ qReadUntil' = qElapsed
    /\ qWaitFrom' = qElapsed
    /\ qPc' = CASE kind = "text" -> "yield"
                [] kind = "skip" -> "read"
                [] kind = "bad" -> "raised_error"
    /\ UNCHANGED <<qCalls, qTimeout, qElapsed, qProcs, last_returncode, last_stderr, SeqRest>>

\* the consumer asks for the next chunk: the generator resumes after the
\* yield and awaits the next readline() (claude_cli.py:90, 146, 170)
SeqResumed ==
    /\ qPc = "yield"
    /\ qWaitFrom' = qElapsed
    /\ qPc' = "read"
    /\ UNCHANGED <<qCalls, qTimeout, qElapsed, qReadUntil, qLines, qProcs, last_returncode,
                   last_stderr, SeqRest>>

\* the consumer leaves its loop and the generator is closed: GeneratorExit
\* is raised at the yield (claude_cli.py:90); it is no TimeoutError and no
\* Exception, so neither handler (111, 117) runs
SeqAbandoned ==
    /\ qPc = "yield"
    /\ qPc' = "closed"
    /\ UNCHANGED <<qCalls, qTimeout, qElapsed, qWaitFrom, qReadUntil, qLines, qProcs,
                   last_returncode, last_stderr, SeqRest>>

\* the consumer's task is cancelled while stream_prompt awaits:
\* CancelledError is no Exception either
SeqCancelled ==
    /\ qPc \in {"read", "wait", "stderr"}
    /\ qPc' = "cancelled"
    /\ UNCHANGED <<qCalls, qTimeout, qElapsed, qWaitFrom, qReadUntil, qLines, qProcs,
                   last_returncode, last_stderr, SeqRest>>

\* readline() returned b"" (claude_cli.py:171-173): the loops end and
\* wait_for(proc.wait(), 10) is awaited (93)
SeqReadEof ==
    /\ qPc = "read"
    /\ qElapsed - qWaitFrom < qTimeout
    /\ qReadUntil' = qElapsed
    /\ qPc' = "wait"
    /\ UNCHANGED <<qCalls, qTimeout, qElapsed, qWaitFrom, qLines, qProcs, last_returncode,
                   last_stderr, SeqRest>>

\* wait_for(readline(), timeout) raised TimeoutError, re-raised at lines
\* 177 and 154; the handler kills proc and awaits proc.wait()
\* (claude_cli.py:111-115)
SeqLineTimeout ==
    /\ qPc = "read"
    /\ qElapsed - qWaitFrom = qTimeout
    /\ qProcs' = SeqKill(qProcs)
    /\ qPc' = "killed"
    /\ UNCHANGED <<qCalls, qTimeout, qElapsed, qWaitFrom, qReadUntil, qLines,
                   last_returncode, last_stderr, SeqRest>>

\* wait_for(proc.wait(), 10) raised TimeoutError: the same handler
\* (claude_cli.py:93, 111-115)
SeqWaitTimeout ==
    /\ qPc = "wait"
    /\ CurProc.state = "running"
    /\ qProcs' = SeqKill(qProcs)
    /\ qPc' = "killed"
    /\ UNCHANGED <<qCalls, qTimeout, qElapsed, qWaitFrom, qReadUntil, qLines,
                   last_returncode, last_stderr, SeqRest>>

\* proc.wait() returned in the handler, which re-raises (claude_cli.py:115-116)
SeqTimeoutRaised ==
    /\ qPc = "killed"
    /\ qPc' = "raised_timeout"
    /\ UNCHANGED <<qCalls, qTimeout, qElapsed, qWaitFrom, qReadUntil, qLines, qProcs,
                   last_returncode, last_stderr, SeqRest>>

\* proc.wait() returned within the 10 s (claude_cli.py:93-94)
SeqWaited ==
    /\ qPc = "wait"
    /\ CurProc.state = "exited"
    /\ last_returncode' = CurProc.code
    /\ qPc' = "stderr"
    /\ UNCHANGED <<qCalls, qTimeout, qElapsed, qWaitFrom, qReadUntil, qLines, qProcs,
                   last_stderr, SeqRest>>

\* proc.stderr.read() returned and the code is checked (claude_cli.py:97-109)
SeqFinished ==
    /\ qPc = "stderr"
    /\ last_stderr' = <<CurProc.stderr>>
    /\ qPc' = IF last_returncode # <<0>> THEN "raised_exit" ELSE "done"
    /\ UNCHANGED <<qCalls, qTimeout, qElapsed, qWaitFrom, qReadUntil, qLines, qProcs,
                   last_returncode, SeqRest>>

InitSeqSpec ==
    /\ InitAll
    /\ tracing = FALSE
    /\ memory_exists = FALSE

NextSeq ==
    \/ \E t \in 1..MaxTimeout : SeqStreamPrompt(t)
    \/ SeqSpawned
    \/ SeqSpawnRaises
    \/ \E i \in 1..MaxSeqCalls, rc \in ReturnCodes : SeqChildExits(i, rc)
    \/ SeqTick
    \/ \E kind \in LineKinds : SeqReadLine(kind)
    \/ SeqResumed
    \/ SeqAbandoned
    \/ SeqCancelled
    \/ SeqReadEof
    \/ SeqLineTimeout
    \/ SeqWaitTimeout
    \/ SeqTimeoutRaised
    \/ SeqWaited
    \/ SeqFinished

SpecSeq == InitSeqSpec /\ [][NextSeq]_vars

\* ------------------------------------------------------------------ claims

IssuedAt(i, cmd) == log[i].e = "issue" /\ log[i].what = cmd
DoneAt(i, cmd) == log[i].e = "done" /\ log[i].what = cmd

\* C1: in every start() that returns successfully the command writing
\* ~/.git-credentials has returned before git clone is issued; more
\* generally no start() issues the clone before that command has returned.
C1_CredentialsBeforeClone ==
    /\ \A j \in 1..Len(log) :
          IssuedAt(j, "clone") => \E i \in 1..(j - 1) : DoneAt(i, "git-credentials")
    /\ (startResult = "ok" /\ tracing) => \E j \in 1..Len(log) : IssuedAt(j, "clone")

C1_Witness ==
    /\ startResult = "ok"
    /\ \E j \in 1..Len(log) : IssuedAt(j, "clone")

\* The begin and end events of the log, in order.
RECURSIVE StepEvents(_)
StepEvents(events) ==
    IF events = <<>> THEN <<>>
    ELSE IF Head(events).e \in {"begin", "end"}
    THEN <<Head(events)>> \o StepEvents(Tail(events))
    ELSE StepEvents(Tail(events))

\* C2: during start() the setup steps run strictly in the order configure
\* git, clone, seed check, CLI initialisation; each begins only after the one
\* before it has ended, none is skipped or run twice, every command is issued
\* inside its own step, and a successful start() has run all four.
C2_SetupStepsInOrder ==
    LET order == <<"_configure_git", "_clone_repo", "_seed_memory_if_needed",
                   "_initialize_claude_cli">>
        steps == StepEvents(log)
    IN /\ Len(steps) <= 2 * Len(order)
       /\ \A k \in 1..Len(steps) :
             /\ steps[k].e = (IF k % 2 = 1 THEN "begin" ELSE "end")
             /\ steps[k].what = order[(k + 1) \div 2]
       /\ \A i \in 1..Len(log) :
             log[i].e = "issue" =>
                \E b \in 1..(i - 1) :
                   /\ log[b].e = "begin"
                   /\ \E n \in 1..Len(StepCmds(log[b].what)) :
                         StepCmds(log[b].what)[n] = log[i].what
                   /\ \A m \in (b + 1)..i : log[m].e \notin {"begin", "end"}
       /\ (startResult = "ok" /\ tracing) => Len(steps) = 2 * Len(order)

C2_Witness ==
    /\ startResult = "ok"
    /\ Len(StepEvents(log)) = 8
    /\ \E i \in 1..Len(log) : IssuedAt(i, "seed")

\* C3: when a setup step raises (an exec that raises, or the clone or the
\* version probe exiting non-zero) the exception ends start(): the raise is
\* the last event of that start(), start() has raised to its caller, and no
\* command is issued a second time.
C3_SetupFailurePropagates ==
    tracing =>
       /\ \A i \in 1..Len(log) : log[i].e = "raise" => i = Len(log)
       /\ (\E i \in 1..Len(log) : log[i].e = "raise") <=> startResult = "raised"
       /\ startResult = "raised" => startPc = "idle"
       /\ \A i \in 1..Len(log) :
             (DoneAt(i, "clone") /\ log[i].rc # 0) =>
                 i + 1 = Len(log) /\ log[i + 1].e = "raise"
       /\ \A i, j \in 1..Len(log) :
             (i < j /\ log[i].e = "issue" /\ log[j].e = "issue") =>
                 log[i].what # log[j].what

C3_Witness ==
    /\ startResult = "raised"
    /\ \E i \in 1..Len(log) : DoneAt(i, "clone") /\ log[i].rc # 0

\* C4: a send_prompt_stream call made when start() was never called, when the
\* most recent start() failed in one of its setup steps, or after terminate()
\* was called since, is rejected with RuntimeError: no CLI is spawned and
\* nothing is written.
C4_OnlyReadyAccepted ==
    \A c \in Calls :
       (pc[c] # "new" /\ statusAtCall[c] \in {"none", "raised", "terminated"})
           => pc[c] = "rejected"

RowsOf(rows, c) == {i \in 1..Len(rows) : rows[i].call = c}

\* C5: a call that ended by a timeout, a non-zero CLI exit, a crash, or by
\* its consumer abandoning it has no row, user or assistant, in the store.
C5_FailedCallNotRecorded ==
    \A c \in Calls :
       pc[c] \in {"timeout", "exit", "crash", "abandoned"} => RowsOf(View, c) = {}

C5_Witness ==
    \E c, d \in Calls :
       /\ pc[c] \in {"timeout", "abandoned"}
       /\ Len(yielded[c]) > 0
       /\ pc[d] = "done"

\* C6: a call that completed has exactly one exchange in the store: a user
\* row holding the caller's prompt (not the context prompt sent to the CLI)
\* directly followed by an assistant row holding the yielded chunks
\* concatenated in order; both are committed.
C6_CompletedCallRecordedOnce ==
    \A c \in Calls :
       pc[c] = "done" =>
          \E i \in 1..(Len(conversation) - 1) :
             /\ RowsOf(View, c) = {i, i + 1}
             /\ conversation[i].role = "user"
             /\ conversation[i].content = prompt[c]
             /\ conversation[i + 1].role = "assistant"
             /\ conversation[i + 1].content = Join(yielded[c])

C6_Witness ==
    \E c \in Calls :
       /\ pc[c] = "done"
       /\ Len(yielded[c]) = 2
       /\ sent[c] # prompt[c]

PositionIn(seq, x) == CHOOSE i \in 1..Len(seq) : seq[i] = x

\* C7: the rows of the store belong to calls whose response stream has
\* completed, and the rows of two calls lie in the order in which the two
\* streams completed, also when the calls overlapped.
C7_ExchangesInCompletionOrder ==
    /\ \A i \in 1..Len(View) : \E k \in 1..Len(completed) : completed[k] = View[i].call
    /\ \A i, j \in 1..Len(View) :
          (i < j /\ View[i].call # View[j].call) =>
              PositionIn(completed, View[i].call) < PositionIn(completed, View[j].call)

C7_Witness ==
    /\ \A c \in Calls : pc[c] = "done"
    /\ completed = <<2, 1>>
    /\ Len(conversation) = 4

\* C8: the committed conversation log never holds the user row of an
\* exchange without its assistant row: every committed user row is directly
\* followed by an assistant row of the same timestamp.
C8_ExchangeCommittedWhole ==
    \A i \in 1..Len(conversation) :
       conversation[i].role = "user" =>
          /\ i < Len(conversation)
          /\ conversation[i + 1].role = "assistant"
          /\ conversation[i + 1].timestamp = conversation[i].timestamp

\* The lines of rows[i..n], oldest first.
RECURSIVE LinesFrom(_, _, _)
LinesFrom(rows, i, n) ==
    IF i > n THEN <<>>
    ELSE <<rows[i].role, ": ">> \o rows[i].content \o <<"\n">> \o LinesFrom(rows, i + 1, n)

\* C9: build_context_prompt(p) returns p unchanged when the log is empty;
\* otherwise the header, the last 10 rows (fewer if the log is shorter) in
\* insertion order as "role: content" lines, and p under "User:".  No older
\* row appears, and the call leaves the store as it was.
C9_ContextFromLastTenRows ==
    ctx # <<>> =>
       LET n == Len(View)
           first == IF n > 10 THEN n - 9 ELSE 1
       IN /\ ctx.store = <<conversation, pending>>
          /\ ctx.result =
                IF n = 0 THEN ctx.prompt
                ELSE <<"Previous conversation:", "\n">> \o LinesFrom(View, first, n)
                         \o <<"\n", "User: ">> \o ctx.prompt \o <<"\n">>

C9_Witness ==
    /\ ctx # <<>>
    /\ Len(View) > 10
    /\ View[1].content # View[11].content

\* C10: once stream_prompt has raised its timeout failure, no process that
\* the call started is running: neither the CLI process nor any process that
\* one started.
C10_TimeoutLeavesNoProcess ==
    cliPc = "raised_timeout" => (child # "running" /\ helpers = 0)

\* C11: once the CLI's stdout has reached EOF and the process has been
\* reaped, stream_prompt ends with its exit-code failure exactly when that
\* process's exit code is non-zero.
C11_FailureIffNonZeroExit ==
    \A c \in Calls :
       pc[c] \in {"exit", "done", "store_error", "no_session"} =>
          (pc[c] = "exit" <=> returncode[c] # <<0>>)

\* seq holds sub as a contiguous run
Contains(seq, sub) ==
    \E k \in 0..(Len(seq) - Len(sub)) : SubSeq(seq, k + 1, k + Len(sub)) = sub

\* The credential token written on stderr in these runs.
OauthToken == <<"o", "a", "u", "t", "h", "_", "k">>

\* C12: the message of the failure stream_prompt raises never holds a
\* credential token that the CLI wrote on stderr.
C12_NoTokenInMessage ==
    cliPc = "raised_error" => ~Contains(error_msg, OauthToken)

\* The string a JSON value is, if it is a string.
IsStr(v) == v[1] = "str"

\* The line has one of the three recognised shapes: a content_block_delta
\* whose delta holds a string text, a string text, a string content.
Recognised(l) ==
    /\ l.kind = "object"
    /\ \/ /\ l.type = JStr("content_block_delta")
          /\ l.delta[1] = "obj"
          /\ l.delta[2] = "str"
       \/ IsStr(l.text)
       \/ IsStr(l.content)

\* C13: handling a stdout line never raises and never ends the stream, and a
\* line that is not JSON, or is JSON of no recognised shape, yields nothing.
C13_ExtractionNeverRaises ==
    /\ exPc # "raised"
    /\ (exRead > 0 /\ ~Recognised(exLine)) =>
           (exText \in {NoText, JStr("")} /\ (exRead = 1 => exYielded = <<>>))

\* Every key the object holds has the type the protocol gives it.
WellTyped(l) ==
    /\ l.kind = "object"
    /\ l.delta = Absent \/ (l.delta[1] = "obj" /\ l.delta[2] \in {"absent", "str"})
    /\ l.text = Absent \/ IsStr(l.text)
    /\ l.content = Absent \/ IsStr(l.content)

InArgv(word) ==
    \E k \in 1..Len(argv) : \E n \in 1..Len(argv[k]) : argv[k][n] = word

\* C15: the CLI process gets the OAuth token in CLAUDE_CODE_OAUTH_TOKEN, and
\* unless the prompt itself quotes the token, no argument of the process
\* holds it.
C15_TokenOnlyInEnvironment ==
    child # "none" =>
       /\ childEnv.CLAUDE_CODE_OAUTH_TOKEN = cliArgs[2]
       /\ (\A n \in 1..Len(cliArgs[1]) : cliArgs[1][n] # cliArgs[2]) => ~InArgv(cliArgs[2])

C15_Witness ==
    /\ child = "running"
    /\ cliArgs = <<<<"use", "tok1">>, "tok2">>
    /\ InArgv("tok1")

\* C16: over the starts of the sessions sharing one memory volume, the seed
\* write to memory.jsonl happens at most once.
C16_SeededAtMostOnce ==
    Cardinality({s \in Sessions : seedWritesBy[s] > 0}) <= 1

\* Session s has issued the seed command.
SeedIssued(s) == seedPc[s] \in {"seed", "seeded", "raised_seed"}

\* C17: a start() whose seed check found memory.jsonl on the volume issues no
\* seed command and writes nothing to the file.
C17_ExistingMemoryNotSeeded ==
    \A s \in Sessions :
       existedAtCheck[s] = "yes" => (~SeedIssued(s) /\ seedWritesBy[s] = 0)

C17_Witness ==
    \E s, t \in Sessions :
       /\ existedAtCheck[s] = "yes"
       /\ seedPc[s] = "skipped"
       /\ seedWritesBy[t] = 1

\* The steps of the teardown log, in order.
TermSteps == [i \in 1..Len(termLog) |-> termLog[i].step]

\* C18: a terminate() on a started sandbox attempts closing the session
\* store, then committing the memory volume, then terminating the handle,
\* each whatever became of the ones before, and then returns: no exception
\* of a step leaves terminate().
C18_TeardownBestEffort ==
    /\ termPc # "raised"
    /\ (tracing /\ termLog # <<>> /\ termLog[1].step # "nothing") =>
          /\ TermSteps \in {<<"close", "commit", "terminate">>,
                            <<"close", "commit", "terminate", "return">>}
          /\ termPc = "idle" <=> Len(termLog) = 4

C18_Witness ==
    /\ termPc = "idle"
    /\ Len(termLog) = 4
    /\ termLog[1] = Attempt("close", "raised")
    /\ termLog[2] = Attempt("commit", "raised")
    /\ termLog[3] = Attempt("terminate", "raised")

\* The lifecycle states the object's fields tell apart while no start() runs:
\* Ready (the latest start() returned and the CLI is usable), Failed (the
\* latest start() raised), Terminated (a terminate() has torn down the
\* sandbox of a start() that had returned).
Ready == startPc = "idle" /\ startResult = "ok" /\ claude_cli_ready
Failed == startPc = "idle" /\ startResult = "raised"
Terminated == startPc = "idle" /\ startResult = "ok" /\ ~claude_cli_ready

\* C19: the lifecycle only moves forward: from Ready, Failed or Terminated
\* the sandbox never enters setup again (and so never becomes Ready again).
C19_LifecycleOnlyForward ==
    [][(Ready \/ Failed \/ Terminated) => startPc' = "idle"]_vars

\* C20: after a start() that raised in one of its setup steps the object
\* exposes no usable sandbox: is_running is False and exec() refuses.
C20_FailedStartNotUsable ==
    (startPc = "idle" /\ startResult = "raised" /\ stepIdx > 0) =>
        (~IsRunning /\ ExecRefuses)

\* C21: every _write_json_atomic(path, data) leaves the new document at path,
\* having written it to path.tmp and renamed that onto path, and a reader of
\* path sees, during and after the call, only the complete previous content
\* or the complete new document.
C21_AtomicWriteThenRename ==
    /\ observed \subseteq {before, wjContent}
    /\ wjPc = "returned" => fs[wjPath] = wjContent /\ fs[Tmp(wjPath)] = NoFile

\* a text of the form digits.digits.digits
IsVersion(t) ==
    \E a, b \in 1..Len(t) :
       /\ 1 < a /\ a + 1 < b /\ b < Len(t)
       /\ \A k \in 1..Len(t) : IF k \in {a, b} THEN t[k] = "." ELSE t[k] \in Digit

VersionsIn(s) ==
    {<<i, j>> \in (1..Len(s)) \X (1..Len(s)) : i <= j /\ IsVersion(SubSeq(s, i, j))}

\* C22: after a successful probe _get_claude_version_safe returns (it does
\* not raise) a digits.digits.digits substring of the output that starts
\* where the leftmost such substring starts, whatever surrounds it, and
\* "2.1.3" when the output has no such substring.
C22_FirstVersionOrFallback ==
    /\ verPc = "raised" => verRc # 0
    /\ verPc = "returned" =>
          IF VersionsIn(verOut) = {}
          THEN verResult = FallbackVersion
          ELSE \E v \in VersionsIn(verOut) :
                  /\ verResult = SubSeq(verOut, v[1], v[2])
                  /\ \A w \in VersionsIn(verOut) : v[1] <= w[1]

\* text before and after the version, and an output without one
C22_Witness ==
    /\ verPc = "returned"
    /\ verOut = <<"v", "1", ".", "2", ".", "1">>
    /\ verResult = <<"1", ".", "2", ".", "1">>

ConfigCmds == {"claude.json", "prefs", "settings"}
VersionFailedAt(i) == DoneAt(i, "version") /\ log[i].rc # 0

C24_RedactionIdempotent ==
    redPc = "done" =>
       /\ redTwice = redOut
       /\ \A m \in Markers : Redact(m) = m

\* a text with two credentials, one of them long enough for the generic rule
C24_Witness ==
    /\ redPc = "done"
    /\ Len(redWords) = 2
    /\ redWords[1].token /\ redWords[2].token
    /\ redWords[1].expect = TokenMarker
    /\ redOut # RedIn

Delimited == \A i \in 1..Len(redSeps) : redSeps[i] # <<>>

\* C25: no credential of the text occurs in the redacted text; and when the
\* words of the text are delimited by blanks or punctuation, the redacted
\* text is the same text with every credential replaced by the marker of its
\* category (the provider's marker for a provider token that is also 40 or
\* more characters long) and every other word and separator unchanged.
C25_TokensReplacedTextKept ==
    redPc = "done" =>
       /\ \A i \in 1..Len(redWords) :
             redWords[i].token => ~Contains(redOut, redWords[i].text)
       /\ Delimited => redOut = Compose(redWords, redSeps, "expect")

\* a provider token longer than the generic threshold next to a plain word
C25_Witness ==
    /\ redPc = "done"
    /\ Delimited
    /\ Len(redWords) = 2
    /\ redWords[1].token /\ Len(redWords[1].text) > TokenThreshold
    /\ redWords[1].expect = ProviderRules[2].marker
    /\ ~redWords[2].token
    /\ redOut # RedIn

Returned == {xResults[i] : i \in 1..Len(xResults)} \cup {hResults[i] : i \in 1..Len(hResults)}

\* C26: every result execute or exec has returned has status success exactly
\* when its return code is 0, and a result whose status is timeout, error or
\* crashed has succeeded false.
C26_SuccessIffExitZero ==
    \A r \in Returned :
       /\ r.status = "success" <=> r.returncode = 0
       /\ r.status \in {"timeout", "error", "crashed"} => ~Succeeded(r)
       /\ Succeeded(r) <=> (r.status = "success" /\ r.returncode = 0)

\* execute has returned a success and a timeout, exec an error and a crash
C26_Witness ==
    /\ {xResults[i].status : i \in 1..Len(xResults)} = {"success", "timeout"}
    /\ {hResults[i].status : i \in 1..Len(hResults)} = {"error", "crashed"}

\* the distinct paths of a marking history, the one marked last first
RECURSIVE RecencyOrder(_)
RecencyOrder(history) ==
    IF history = <<>> THEN <<>>
    ELSE LET last == history[Len(history)]
         IN <<last>> \o RecencyOrder(SelectSeq(SubSeq(history, 1, Len(history) - 1),
                                               LAMBDA p : p # last))

\* C27: the registry holds exactly one record for every path that was marked
\* and none for any other, a path marked again keeps one record with the
\* timestamp of its latest marking, and get_modified_files returns all the
\* marked paths with the most recently marked first.
C27_OneRecordPerPathNewestFirst ==
    /\ \A p \in FilePaths :
          Cardinality({r \in FilesView : r.path = p})
             = IF \E k \in 1..Len(marked) : marked[k] = p THEN 1 ELSE 0
    /\ listedAt = Len(marked) => listed = RecencyOrder(marked)

Sandboxes == 1..xMade
TerminateCallsOn(sb) == Cardinality({i \in 1..Len(xTermCalls) : xTermCalls[i] = sb})

\* C28: when execute returns, terminate() has been called exactly once on the
\* sandbox the call created, whether the code ran to its end with exit code
\* 0 or not, timed out or crashed; no sandbox is terminated twice, and a
\* call whose Sandbox.create failed has no sandbox to terminate.
C28_SandboxTerminatedOnce ==
    /\ \A sb \in Sandboxes : TerminateCallsOn(sb) <= 1
    /\ xPc \in {"returned", "idle"} => \A sb \in Sandboxes : TerminateCallsOn(sb) = 1
    /\ xPc # "idle" /\ xSb # 0 =>
          TerminateCallsOn(xSb) = IF xPc = "returned" THEN 1 ELSE 0

\* both calls created a sandbox: one timed out, the other exited non-zero
C28_Witness ==
    /\ xPc = "returned"
    /\ xMade = 2
    /\ Len(xResults) = 2
    /\ xResults[1].status = "timeout"
    /\ xResults[2].status = "error"
    /\ xTermCalls = <<1, 2>>

HasPart(arg, part) == \E i \in 1..Len(arg) : arg[i] = part
Mentions(cmd, part) == \E a \in 1..Len(cmd) : HasPart(cmd[a], part)

\* C29: no argument of the git clone command of start(), its URL included,
\* contains the GitHub token; when clone is issued the credential helper has
\* been set to store and the token has been written to its file by the
\* commands before it, which is all the authentication the clone has.
C29_NoTokenInCloneUrl ==
    \A i \in 1..Len(gitIssued) :
       IsClone(gitIssued[i]) =>
          /\ ~Mentions(gitIssued[i], gitSession.github_token)
          /\ gitIssued[i][5] = <<"https://github.com/", gitSession.repo_owner, "/",
                                 gitSession.repo_name, ".git">>
          /\ \E h, w \in 1..(i - 1) :
                /\ h < w
                /\ gitIssued[h] = GitConfig("credential.helper", <<"store">>)
                /\ gitIssued[w][1] = <<"bash">>
                /\ Mentions(gitIssued[w], gitSession.github_token)

\* the clone has been issued and has returned
C29_Witness ==
    /\ gitPc = "done"
    /\ gitSession.github_token = "tok2"
    /\ IsClone(gitIssued[Len(gitIssued)])

\* C30: execute never raises; a call in which SandboxTimeoutError was raised
\* returns status timeout with return code -1, a call in which any other
\* exception was raised, by Sandbox.create included, returns status crashed
\* with return code -1, and a terminate() that raises in the cleanup leaves
\* the call returning the result it had built.
C30_ExecuteNeverRaises ==
    /\ xPc # "raised"
    /\ Len(xResults) = (IF xPc \in {"idle", "returned"} THEN executes ELSE executes - 1)
    /\ xPc = "returned" =>
          LET r == xResults[Len(xResults)]
          IN /\ <<r>> = xPending
             /\ xPath = "timeout" => (r.status = "timeout" /\ r.returncode = -1)
             /\ xPath = "crash" => (r.status = "crashed" /\ r.returncode = -1)
             /\ xPath = "normal" => r.status \in {"success", "error"}

\* a normal completion whose cleanup failed, after a call whose
\* Sandbox.create raised
C30_Witness ==
    /\ xPc = "returned"
    /\ Len(xResults) = 2
    /\ xResults[1].status = "crashed"
    /\ xMade = 1
    /\ xPath = "normal"
    /\ xCleanup = "raised"
    /\ xResults[2].status = "success"

\* C31: a stream_prompt call with timeout T is bounded by T overall: no call
\* is still reading the lines of its process more than T after it was made
\* (by then it has terminated the process and raised the timeout failure),
\* and no call that ended normally or with the exit-code failure read a line
\* or the end of stdout later than T after it was made.
C31_CallBoundedByTimeout ==
    /\ qPc = "read" => qElapsed <= qTimeout
    /\ qPc \in {"done", "raised_exit"} => qReadUntil <= qTimeout

\* C32: once a stream_prompt call has succeeded, failed for the exit code
\* or timed out, last_returncode and last_stderr are the exit code and the
\* stderr of the process that call spawned, and no call spawns more than
\* one process.
C32_LastFieldsOfLatestCall ==
    /\ \A k \in 1..qCalls : Cardinality({i \in 1..Len(qProcs) : qProcs[i].call = k}) <= 1
    /\ qPc \in {"done", "raised_exit", "raised_timeout"} =>
          /\ HasProc
          /\ last_returncode = CurProc.code
          /\ last_stderr = <<CurProc.stderr>>

\* C33: no command start() hands to the sandbox for git (credential helper,
\* credentials file, identity, defaults, clone) has the GitHub token in any
\* of its arguments.
C33_NoTokenInAnyArgument ==
    \A i \in 1..Len(gitIssued) : ~Mentions(gitIssued[i], gitSession.github_token)

\* the setup commands of the claim: credential helper, credentials file,
\* the two identity commands, the seed command, the three configuration writes
FailFastCmds ==
    {"credential.helper", "git-credentials", "user.email", "user.name", "seed"} \cup ConfigCmds

\* C34: when one of those commands exits non-zero, start() raises at once
\* (the raise is the next and last event of that start()), it does not
\* return successfully and the sandbox is not Ready.
C34_EverySetupCommandFailFast ==
    tracing =>
       \A i \in 1..Len(log) :
          (log[i].e = "done" /\ log[i].what \in FailFastCmds /\ log[i].rc # 0) =>
              /\ i + 1 = Len(log) /\ log[i + 1].e = "raise"
              /\ startResult = "raised"
              /\ ~Ready

\* C35: when a _write_json_atomic(path, data) call has returned, the file at
\* path exists and holds the whole serialization of data, and no temporary
\* sibling of a configuration file is left in the sandbox.
C35_WrittenFileCompleteNoTemp ==
    wjPc = "returned" =>
       /\ fs[wjPath] # NoFile
       /\ fs[wjPath] = Dumps(Config(wjPath))
       /\ \A p \in ConfigPaths : fs[Tmp(p)] = NoFile

\* C36: with overlapping send_prompt_stream calls, every call that completed
\* has exactly one exchange in the committed log, and the log is a sequence
\* of pairs: a user row directly followed by the assistant row of the same
\* call.
C36_OverlappingCallsRecordWholePairs ==
    /\ \A c \in Calls : pc[c] = "done" => Cardinality(RowsOf(conversation, c)) = 2
    /\ Len(conversation) % 2 = 0
    /\ \A i \in 1..Len(conversation) :
          i % 2 = 1 =>
             /\ conversation[i].role = "user"
             /\ conversation[i + 1].role = "assistant"
             /\ conversation[i + 1].call = conversation[i].call

\* C37: however a stream_prompt call ended (exhausted, exit-code failure,
\* timeout, another exception, closed or cancelled by its consumer), the
\* process it spawned is not running any more.
C37_NoExitPathLeavesChild ==
    \A i \in 1..Len(qProcs) :
        (qProcs[i].call < qCalls \/ qPc \in SeqEnded) => qProcs[i].state = "exited"

\* the latest terminate() has returned, the provisioning API having ended
\* the sandbox it was asked to end, and no start() has been called since
TerminateReturned ==
    /\ tracing /\ terminatedSince
    /\ termPc = "idle" /\ startPc = "idle"
    /\ Len(termLog) = 4 /\ termLog[3] = Attempt("terminate", "ok")

\* C38: once terminate() has returned, the object holds no handle and no
\* sandbox it created is still live, whatever start() and terminate() calls
\* came before.
C38_EveryHandleReleased ==
    TerminateReturned => (sandbox = 0 /\ live = {})

\* how a call ends when it fails or is given up: TimeoutError, RuntimeError
\* for the exit code, another exception, the consumer closing the
\* generator, AttributeError for the session state that is None
EndedInFailure == {"timeout", "exit", "crash", "abandoned", "no_session"}

\* C39: a send_prompt_stream call that was streaming when terminate() closed
\* the session store never completes: it goes on streaming or has ended in
\* a failure, no row of it is in the store, and the committed log is the one
\* terminate() closed.
C39_TerminatedStreamFails ==
    \A c \in closedUnder :
       /\ pc[c] \in Streaming \cup EndedInFailure
       /\ RowsOf(View, c) = {}
       /\ conversation = logAtClose

====
